---- MODULE Spec2Model ----
(***************************************************************************)
(* A model of the rust_rpc_relay request-routing engine: the provider      *)
(* registry and its reconciliation, the token bucket, the circuit breaker, *)
(* candidate selection, the relay handler (cache, failover, broadcast),    *)
(* the health prober and the configuration hot reload.                     *)
(*                                                                         *)
(* Time is one clock `now`, counted in ticks; TicksPerSec ticks make one   *)
(* second.  Token counts are kept in units of 1/TicksPerSec token, so the  *)
(* fractional refill `dt * refill_per_sec` of the code is exact.           *)
(* Provider state objects (Arc<ProviderState>) live in the heap `prov`, a  *)
(* sequence indexed by object id; the registry, the candidate snapshots of *)
(* in-flight requests and the probe set of a sweep hold object ids.        *)
(***************************************************************************)
EXTENDS Integers, Sequences, FiniteSets, TLC

VARIABLES
    now,          \* the clock, in ticks (Instant::now and SystemTime::now)
    cfg,          \* AppState.cfg: the active Config
    registry,     \* AppState.registry: [primaries, secondaries], sequences of object ids
    prov,         \* the heap of ProviderState objects, by object id
    last_err_map, \* error_reason::LAST_ERR: url -> ErrorReason
    rr_main,      \* AppState.rr_main
    total_calls,  \* AppState.total_calls
    cache_hits,   \* AppState.cache_hits
    cache,        \* TtlCache.inner: key -> <<>> (absent) or <<[exp, val]>>
    req,          \* the relay handler instances, by slot
    reply,        \* the response a handler returned in the last step, if one did
    sweep,        \* the health_loop task
    watcher,      \* the watch_config_and_apply task
    lk            \* by task: its place in its lock protocol and the guards it holds

vars == <<now, cfg, registry, prov, last_err_map, rr_main, total_calls,
          cache_hits, cache, req, reply, sweep, watcher, lk>>

(***************************************************************************)
(* Bounds of the model.                                                    *)
(***************************************************************************)
TicksPerSec == 2    \* clock resolution: ticks per second
MaxInFlight == 2    \* relay handler instances running concurrently
MaxEvents == 3      \* requests received + sweeps started + reloads + seconds elapsed

(***************************************************************************)
(* Sentinels of the code.                                                  *)
(***************************************************************************)
INFINITY == -1      \* f64::INFINITY of an unlimited bucket
U64_MAX  == 99      \* u64::MAX, the initial latency_ms: above every measured latency

None    == <<>>
Some(x) == <<x>>
IsSome(o) == o /= <<>>
unwrap_or(o, d) == IF o = <<>> THEN d ELSE o[1]

Max(a, b) == IF a >= b THEN a ELSE b
Min(a, b) == IF a <= b THEN a ELSE b
saturating_sub(a, b) == IF a >= b THEN a - b ELSE 0

Range(s) == {s[i] : i \in 1..Len(s)}

(***************************************************************************)
(* token_bucket.rs                                                         *)
(***************************************************************************)
is_infinite(x) == x = INFINITY

\* TokenBucket::new at clock t.  capacity and tokens in 1/TicksPerSec token.
TokenBucket_new(max_tps, t) ==
    LET cap == IF max_tps = 0 THEN INFINITY ELSE max_tps * TicksPerSec
        rps == IF max_tps = 0 THEN INFINITY ELSE max_tps
    IN [capacity |-> cap, tokens |-> cap, refill_per_sec |-> rps, last |-> t]

\* A refill without the min against capacity.
refill_uncapped(b, t) ==
    IF is_infinite(b.capacity) THEN b
    ELSE LET dt == t - b.last
         IN IF dt > 0
            THEN [b EXCEPT !.tokens = b.tokens + dt * b.refill_per_sec, !.last = t]
            ELSE b

\* A refill that forgets self.last = now.
refill_keep_last(b, t) ==
    IF is_infinite(b.capacity) THEN b
    ELSE LET dt == t - b.last
         IN IF dt > 0
            THEN [b EXCEPT !.tokens = Min(b.tokens + dt * b.refill_per_sec, b.capacity)]
            ELSE b

\* TokenBucket::refill at clock t: dt seconds = (t - last) / TicksPerSec, so
\* dt * refill_per_sec tokens = (t - last) * refill_per_sec units.
refill(b, t) ==
    IF is_infinite(b.capacity) THEN b
    ELSE LET dt == t - b.last
         IN IF dt > 0
            THEN [b EXCEPT !.tokens = Min(b.tokens + dt * b.refill_per_sec, b.capacity),
                           !.last = t]
            ELSE b

\* TokenBucket::try_take(n) at clock t: [ok, bucket after the call].
\* try_take that admits without debiting the balance.
try_take_nodebit(b, n, t) ==
    IF is_infinite(b.capacity) THEN [ok |-> TRUE, bucket |-> b]
    ELSE LET r == refill(b, t)
         IN [ok |-> r.tokens >= n * TicksPerSec, bucket |-> r]

try_take(b, n, t) ==
    IF is_infinite(b.capacity) THEN [ok |-> TRUE, bucket |-> b]
    ELSE LET r == refill(b, t)
         IN IF r.tokens >= n * TicksPerSec
            THEN [ok |-> TRUE, bucket |-> [r EXCEPT !.tokens = r.tokens - n * TicksPerSec]]
            ELSE [ok |-> FALSE, bucket |-> r]

(***************************************************************************)
(* circuit_breaker.rs                                                      *)
(***************************************************************************)
now_epoch(t) == t \div TicksPerSec

CircuitBreaker_default == [fail_streak |-> 0, banned_until_epoch |-> 0]

is_banned(br, t) == now_epoch(t) < br.banned_until_epoch

\* on_success that also lifts the ban.
on_success_unban(br) == [fail_streak |-> 0, banned_until_epoch |-> 0]

on_success(br) == [br EXCEPT !.fail_streak = 0]

\* on_failure that bans one failure late.
on_failure_late(br, bcfg, t) ==
    LET streak == br.fail_streak + 1
    IN IF streak > bcfg.ban_error_threshold
       THEN [fail_streak |-> 0,
             banned_until_epoch |-> now_epoch(t) + bcfg.ban_seconds]
       ELSE [br EXCEPT !.fail_streak = streak]

on_failure(br, bcfg, t) ==
    LET streak == br.fail_streak + 1
    IN IF streak >= bcfg.ban_error_threshold
       THEN [fail_streak |-> 0,
             banned_until_epoch |-> now_epoch(t) + bcfg.ban_seconds]
       ELSE [br EXCEPT !.fail_streak = streak]

banned_until(br) == br.banned_until_epoch

(***************************************************************************)
(* state.rs: ProviderState                                                 *)
(***************************************************************************)
\* ProviderState::from_endpoint, the object built at clock t.
from_endpoint(ep, t) ==
    LET mtps == unwrap_or(ep.max_tps, 0)
    IN [url          |-> ep.url,
        weight       |-> Max(ep.weight, 1),
        max_tps      |-> mtps,
        healthy      |-> TRUE,
        latest_block |-> 0,
        behind       |-> 0,
        latency_ms   |-> U64_MAX,
        errors       |-> 0,
        call_count   |-> 0,
        bucket       |-> TokenBucket_new(mtps, t),
        breaker      |-> CircuitBreaker_default]

\* is_healthy that ignores the flag.
is_healthy_always(p) == TRUE

is_healthy(p) == p.healthy
mark_healthy(p, ok) == [p EXCEPT !.healthy = ok]
breaker_is_banned(p, t) == is_banned(p.breaker, t)
breaker_success(p) == [p EXCEPT !.breaker = on_success(p.breaker)]
breaker_failure(p, bcfg, t) == [p EXCEPT !.breaker = on_failure(p.breaker, bcfg, t)]
get_latency(p) == p.latency_ms
get_weight(p) == Max(p.weight, 1)

\* ProviderRegistry::all
all(reg) == reg.primaries \o reg.secondaries

build_registry_heap(eps, t) ==
    [i \in 1..(Len(eps.primary) + Len(eps.secondary)) |->
        IF i <= Len(eps.primary) THEN from_endpoint(eps.primary[i], t)
        ELSE from_endpoint(eps.secondary[i - Len(eps.primary)], t)]

\* build_registry: the objects are allocated in the heap in list order.
build_registry(eps) ==
    [primaries   |-> [i \in 1..Len(eps.primary) |-> i],
     secondaries |-> [i \in 1..Len(eps.secondary) |-> Len(eps.primary) + i]]

\* The HashMap `existing` of reconcile_registry: url -> Option<object>, collected
\* from reg.all() in order, a later object with the same url replacing an earlier.
\* An `existing` map that finds no URL.
existing_index_empty(reg, h) == <<>>

existing_index(reg, h) ==
    [u \in {h[o].url : o \in Range(all(reg))} |->
        LET lst == all(reg)
            idx == {i \in 1..Len(lst) : h[lst[i]].url = u}
            last == CHOOSE i \in idx : \A j \in idx : j <= i
        IN lst[last]]

\* One `for ep in &new_eps.<tier>` loop of reconcile_registry:
\* [tier, existing, heap] after the endpoints eps.
\* The tier loop re-seeding the bucket of every retained provider.
RECURSIVE reconcile_tier_reseed(_, _, _, _, _)
reconcile_tier_reseed(eps, existing, h, t, out) ==
    IF eps = <<>> THEN [tier |-> out, existing |-> existing, heap |-> h]
    ELSE LET ep == Head(eps)
         IN IF ep.url \in DOMAIN existing
            THEN LET o == existing[ep.url]
                     new_mtps == unwrap_or(ep.max_tps, 0)
                     p2 == [h[o] EXCEPT !.weight = Max(ep.weight, 1),
                                        !.max_tps = new_mtps,
                                        !.bucket = TokenBucket_new(new_mtps, t)]
                 IN reconcile_tier_reseed(Tail(eps),
                                   [u \in DOMAIN existing \ {ep.url} |-> existing[u]],
                                   [h EXCEPT ![o] = p2], t, Append(out, o))
            ELSE reconcile_tier_reseed(Tail(eps), existing,
                                Append(h, from_endpoint(ep, t)), t,
                                Append(out, Len(h) + 1))

RECURSIVE reconcile_tier(_, _, _, _, _)
reconcile_tier(eps, existing, h, t, out) ==
    IF eps = <<>> THEN [tier |-> out, existing |-> existing, heap |-> h]
    ELSE LET ep == Head(eps)
         IN IF ep.url \in DOMAIN existing
            THEN LET o == existing[ep.url]
                     p1 == [h[o] EXCEPT !.weight = Max(ep.weight, 1)]
                     new_mtps == unwrap_or(ep.max_tps, 0)
                     old_mtps == p1.max_tps
                     p2 == IF new_mtps /= old_mtps
                           THEN [p1 EXCEPT !.max_tps = new_mtps,
                                           !.bucket = TokenBucket_new(new_mtps, t)]
                           ELSE p1
                 IN reconcile_tier(Tail(eps),
                                   [u \in DOMAIN existing \ {ep.url} |-> existing[u]],
                                   [h EXCEPT ![o] = p2], t, Append(out, o))
            ELSE reconcile_tier(Tail(eps), existing,
                                Append(h, from_endpoint(ep, t)), t,
                                Append(out, Len(h) + 1))

\* reconcile_registry at clock t: [registry, heap] after the call.
reconcile_registry(reg, new_eps, h, t) ==
    LET prim == reconcile_tier(new_eps.primary, existing_index(reg, h), h, t, <<>>)
        sec  == reconcile_tier(new_eps.secondary, prim.existing, prim.heap, t, <<>>)
    IN [registry |-> [primaries |-> prim.tier, secondaries |-> sec.tier],
        heap     |-> sec.heap]

(***************************************************************************)
(* relay.rs: selection helpers.  Lists are sequences of object ids, read   *)
(* through the heap h.                                                     *)
(***************************************************************************)
\* The closure now_healthy of healthy_candidates.
\* now_healthy without the breaker.
now_healthy_noban(p, t) == is_healthy(p)

now_healthy(p, t) == is_healthy(p) /\ ~breaker_is_banned(p, t)

RECURSIVE repeat(_, _)
repeat(x, n) == IF n <= 0 THEN <<>> ELSE <<x>> \o repeat(x, n - 1)

\* A weighting that lists every provider once.
apply_weights_once(list, h) == list

RECURSIVE apply_weights(_, _)
apply_weights(list, h) ==
    IF list = <<>> THEN <<>>
    ELSE repeat(Head(list), get_weight(h[Head(list)])) \o apply_weights(Tail(list), h)

\* healthy_candidates drawing on both tiers at once.
healthy_candidates_both(reg, h, t) ==
    LET ok(o) == now_healthy(h[o], t)
    IN apply_weights(SelectSeq(reg.primaries, ok) \o SelectSeq(reg.secondaries, ok), h)

\* healthy_candidates drawing on every provider object still alive.
healthy_candidates_heap(reg, h, t) ==
    LET ok(o) == now_healthy(h[o], t)
    IN apply_weights(SelectSeq([i \in 1..Len(h) |-> i], ok), h)

healthy_candidates(reg, h, t) ==
    LET ok(o) == now_healthy(h[o], t)
        prim == SelectSeq(reg.primaries, ok)
        sec  == SelectSeq(reg.secondaries, ok)
    IN IF prim /= <<>> THEN apply_weights(prim, h) ELSE apply_weights(sec, h)

\* A gate that also passes a latency equal to the threshold.
filter_latency_le(list, threshold_ms, h) ==
    IF IsSome(threshold_ms)
    THEN LET th == threshold_ms[1]
             isUnder(o) == get_latency(h[o]) <= th
             under == SelectSeq(list, isUnder)
         IN IF under /= <<>> THEN under
            ELSE IF list /= <<>>
                 THEN LET min == CHOOSE m \in {get_latency(h[o]) : o \in Range(list)} :
                                    \A o \in Range(list) : m <= get_latency(h[o])
                          isMin(o) == get_latency(h[o]) = min
                      IN SelectSeq(list, isMin)
                 ELSE list
    ELSE list

filter_latency(list, threshold_ms, h) ==
    IF IsSome(threshold_ms)
    THEN LET th == threshold_ms[1]
             isUnder(o) == get_latency(h[o]) < th
             under == SelectSeq(list, isUnder)
         IN IF under /= <<>> THEN under
            ELSE IF list /= <<>>
                 THEN LET min == CHOOSE m \in {get_latency(h[o]) : o \in Range(list)} :
                                    \A o \in Range(list) : m <= get_latency(h[o])
                          isMin(o) == get_latency(h[o]) = min
                      IN SelectSeq(list, isMin)
                 ELSE list
    ELSE list

\* A sort that leaves the list as it is.
sort_by_latency_none(list, h) == list

\* Vec::sort_by_key(get_latency): a stable sort, here by insertion.
RECURSIVE insert_sorted(_, _, _)
insert_sorted(sorted, o, h) ==
    IF sorted = <<>> THEN <<o>>
    ELSE IF get_latency(h[Head(sorted)]) <= get_latency(h[o])
         THEN <<Head(sorted)>> \o insert_sorted(Tail(sorted), o, h)
         ELSE <<o>> \o sorted

RECURSIVE sort_by_latency(_, _)
sort_by_latency(list, h) ==
    IF list = <<>> THEN <<>>
    ELSE insert_sorted(sort_by_latency(SubSeq(list, 1, Len(list) - 1), h),
                       list[Len(list)], h)

RECURSIVE dedup_by_url(_, _, _)
dedup_by_url(list, seen, h) ==
    IF list = <<>> THEN <<>>
    ELSE LET u == h[Head(list)].url
         IN IF u \in seen THEN dedup_by_url(Tail(list), seen, h)
            ELSE <<Head(list)>> \o dedup_by_url(Tail(list), seen \cup {u}, h)

unique_by_low_latency(list, h) == dedup_by_url(sort_by_latency(list, h), {}, h)

\* The candidate snapshot of relay: healthy_candidates, then filter_latency.
select_candidates(c, reg, h, t) ==
    filter_latency(healthy_candidates(reg, h, t), c.relay.latency_threshold_ms, h)

\* A rotation that leaves the list as it is.
rotate_left_none(list, k) == list

\* Vec::rotate_left(k).
rotate_left(list, k) ==
    IF list = <<>> THEN list
    ELSE SubSeq(list, k + 1, Len(list)) \o SubSeq(list, 1, k)

(***************************************************************************)
(* JSON values (serde_json::Value) as far as the handler looks into them.  *)
(*   JNull, JStr(s), JArr(<<...>>) for request params;                     *)
(*   JObj(id, result, error) for a JSON-RPC response object, each member   *)
(*   an Option; JOther for a body that parses but is no object.            *)
(***************************************************************************)
JNull == [t |-> "null"]
JStr(x) == [t |-> "str", s |-> x]
JArr(a) == [t |-> "arr", a |-> a]
JObj(id, result, error) == [t |-> "obj", id |-> id, result |-> result, error |-> error]
JOther == [t |-> "other"]

\* Value::get("error") / get("id") of a body: None unless an object holding it.
get_error(v) == IF v.t = "obj" THEN v.error ELSE None
get_id(v) == IF v.t = "obj" THEN v.id ELSE None

\* Value::to_string (serde_json's compact text).
RECURSIVE join_json(_)
to_string(v) ==
    CASE v.t = "null" -> "null"
      [] v.t = "str"  -> "\"" \o v.s \o "\""
      [] v.t = "arr"  -> "[" \o join_json(v.a) \o "]"
      [] OTHER        -> "{}"
join_json(a) ==
    IF a = <<>> THEN ""
    ELSE IF Len(a) = 1 THEN to_string(a[1])
    ELSE to_string(a[1]) \o "," \o join_json(Tail(a))

\* A normalisation that appends "pending" without truncating.
normalize_append(method, params_value) ==
    IF method = "eth_getTransactionCount" /\ params_value.t = "arr" /\ params_value.a /= <<>>
    THEN JArr(Append(params_value.a, JStr("pending")))
    ELSE params_value

\* relay: the eth_getTransactionCount normalisation of params.
normalize(method, params_value) ==
    IF method = "eth_getTransactionCount" /\ params_value.t = "arr" /\ params_value.a /= <<>>
    THEN LET arr == SubSeq(params_value.a, 1, Min(Len(params_value.a), 2))
         IN IF Len(arr) = 1 THEN JArr(Append(arr, JStr("pending")))
            ELSE JArr([arr EXCEPT ![2] = JStr("pending")])
    ELSE params_value

(***************************************************************************)
(* relay.rs: TtlCache.  The map is a function on the keys it holds.        *)
(***************************************************************************)
\* Instant::now() at clock t, in milliseconds.
instant_ms(t) == (t * 1000) \div TicksPerSec

\* TtlCache::get that does not look at the deadline.
cache_get_stale(map, key, t) ==
    IF key \in DOMAIN map THEN [hit |-> Some(map[key].val), map |-> map]
    ELSE [hit |-> None, map |-> map]

\* TtlCache::get at clock t: [hit, map after the call].
cache_get(map, key, t) ==
    IF key \in DOMAIN map
    THEN IF map[key].exp > instant_ms(t)
         THEN [hit |-> Some(map[key].val), map |-> map]
         ELSE [hit |-> None, map |-> [k \in DOMAIN map \ {key} |-> map[k]]]
    ELSE [hit |-> None, map |-> map]

\* TtlCache::insert_with_ttl at clock t, ttl in milliseconds.  The entry is
\* (exp, val); `inserted` is a history field recording the instant of the
\* insert, which the code does not keep.
insert_with_ttl(map, key, val, ttl, t) ==
    [k \in DOMAIN map \cup {key} |->
        IF k = key
        THEN [exp |-> instant_ms(t) + ttl, val |-> val, inserted |-> instant_ms(t)]
        ELSE map[k]]

\* A cache key that leaves the params out.
cache_key_method_only(method, params_value) == <<method, "">>

cache_key(method, params_value) == <<method, to_string(params_value)>>

(***************************************************************************)
(* error_reason.rs                                                         *)
(***************************************************************************)
ErrorReason == {"none", "rpc_error", "bad_json", "http_error", "timeout"}

\* A write that stores none whatever the reason.
set_last_error_none(map, url, reason) ==
    [u \in DOMAIN map \cup {url} |-> IF u = url THEN "none" ELSE map[u]]

set_last_error(map, url, reason) ==
    [u \in DOMAIN map \cup {url} |-> IF u = url THEN reason ELSE map[u]]

get_last_error(map, url) == IF url \in DOMAIN map THEN map[url] ELSE "none"

(***************************************************************************)
(* relay.rs: the relay handler.  An instance runs from one await to the    *)
(* next in one step:                                                       *)
(*   RelayBegin   counter, normalisation, ttl read, cache lookup           *)
(*   RelaySelect  candidate snapshot, then the first dispatch              *)
(*   FailoverReply / BroadcastReply  one upstream result, and what the     *)
(*                handler does until it awaits again or returns            *)
(***************************************************************************)
Slots == 1..MaxInFlight

NoReq == [pc |-> "idle", body |-> <<>>, id_value |-> 0, method |-> "",
          params_value |-> JNull, ttl_ms |-> 0, cands |-> <<>>, tries |-> 0,
          redundancy |-> 0, breaker_cfg |-> <<>>, attempt |-> 0, rr_idx |-> 0,
          last_err |-> "", first_err |-> None, prov |-> 0, pending |-> {},
          resp |-> <<>>]

\* The response the handler returns: (StatusCode, Json(body)).
Response(status, body) == <<[status |-> status, body |-> body]>>

\* The handler state at `return (status, Json(body))`.
returned(q, status, body) ==
    [NoReq EXCEPT !.pc = "done", !.body = q.body, !.resp = Response(status, body)]

\* Handler r goes on as q; when q has returned, the slot is free again and
\* the request with its response is what the client sees.
Continue(r, q) ==
    /\ req' = [req EXCEPT ![r] = IF q.pc = "done" THEN NoReq ELSE q]
    /\ reply' = IF q.pc = "done"
                THEN Some([request |-> q.body, status |-> q.resp[1].status,
                           body |-> q.resp[1].body])
                ELSE None

\* json!({"jsonrpc":"2.0","id": id,"error":{"code": code,"message": message}})
error_body(id, code, message) ==
    JObj(Some(id), None, Some([code |-> code, message |-> message]))

\* Match arms that take every JSON body for a success.
classify_any_json(res) ==
    CASE res.k = "timeout"   -> [ok |-> FALSE, msg |-> "upstream timeout", reason |-> "timeout"]
      [] res.k = "transport" -> [ok |-> FALSE, msg |-> "upstream error", reason |-> "http_error"]
      [] res.k = "http" ->
           IF res.body = None
           THEN [ok |-> FALSE, msg |-> "bad json", reason |-> "bad_json"]
           ELSE [ok |-> TRUE, v |-> res.body[1]]

\* The result of one upstream call, tokio::time::timeout(.., send()):
\*   [k |-> "timeout"]                 Err(_): no response in time
\*   [k |-> "transport"]               Ok(Err(_)): the send failed
\*   [k |-> "http", status, body]      Ok(Ok(resp)); body = None when
\*                                     resp.json() fails, Some(v) otherwise
\* The match arms of relay: [ok, v] on success, [ok, msg, reason] on failure.
classify(res) ==
    CASE res.k = "timeout"   -> [ok |-> FALSE, msg |-> "upstream timeout", reason |-> "timeout"]
      [] res.k = "transport" -> [ok |-> FALSE, msg |-> "upstream error", reason |-> "http_error"]
      [] res.k = "http" ->
           IF res.body = None
           THEN [ok |-> FALSE, msg |-> "bad json", reason |-> "bad_json"]
           ELSE LET v == res.body[1]
                IN IF get_error(v) = None
                   THEN [ok |-> TRUE, v |-> v]
                   ELSE [ok |-> FALSE, msg |-> to_string(get_error(v)[1]),
                         reason |-> "rpc_error"]

\* ProviderState::try_consume_token on object o: [ok, heap after the call].
try_consume_token(h, o, t) ==
    LET r == try_take(h[o].bucket, 1, t)
    IN [ok |-> r.ok, heap |-> [h EXCEPT ![o].bucket = r.bucket]]

\* A find that admits nothing.
find_token_none(list, h, t) == [found |-> None, heap |-> h]

\* candidates.into_iter().find(|p| p.try_consume_token()):
\* [found, heap]; every bucket visited is refilled on the way.
RECURSIVE find_token(_, _, _)
find_token(list, h, t) ==
    IF list = <<>> THEN [found |-> None, heap |-> h]
    ELSE LET r == try_consume_token(h, Head(list), t)
         IN IF r.ok THEN [found |-> Some(Head(list)), heap |-> r.heap]
            ELSE find_token(Tail(list), r.heap, t)

\* The admission loop of the broadcast path: [chosen, heap].
RECURSIVE admit(_, _, _, _, _)
admit(list, chosen, redundancy, h, t) ==
    IF list = <<>> \/ Len(chosen) >= redundancy THEN [chosen |-> chosen, heap |-> h]
    ELSE LET r == try_consume_token(h, Head(list), t)
         IN admit(Tail(list), IF r.ok THEN Append(chosen, Head(list)) ELSE chosen,
                  redundancy, r.heap, t)

\* call_count.fetch_add(1) on every object of the set S.
count_calls(h, S) ==
    [o \in DOMAIN h |-> IF o \in S THEN [h[o] EXCEPT !.call_count = @ + 1] ELSE h[o]]

\* A failure arm that forgets errors.fetch_add(1).
record_failure_uncounted(h, o, bcfg, t) ==
    [h EXCEPT ![o] = breaker_failure(h[o], bcfg, t)]

\* The three statements every failure arm ends with:
\* errors.fetch_add(1); breaker_failure(&breaker_cfg); set_last_error(url, reason).
record_failure(h, o, bcfg, t) ==
    [h EXCEPT ![o] = breaker_failure([h[o] EXCEPT !.errors = @ + 1], bcfg, t)]

\* One iteration of the failover loop up to its await, for handler state q:
\* the handler either awaits the chosen provider or returns 429.
failover_iteration(q, h, t) ==
    LET idx == q.rr_idx % Len(q.cands)
        f == find_token(rotate_left(q.cands, idx), h, t)
    IN IF f.found = None
       THEN [req  |-> returned(q, 429, error_body(q.id_value, -32005,
                                                <<"Rate limited; try later">>)),
             heap |-> f.heap]
       ELSE [req  |-> [q EXCEPT !.pc = "await", !.rr_idx = idx, !.prov = f.found[1]],
             heap |-> count_calls(f.heap, {f.found[1]})]

\* The broadcast path up to its await.
broadcast_dispatch(q, h, t) ==
    LET a == admit(unique_by_low_latency(q.cands, h), <<>>, q.redundancy, h, t)
    IN IF a.chosen = <<>>
       THEN [req  |-> returned(q, 429, error_body(q.id_value, -32005,
                                                <<"Rate limited; try later">>)),
             heap |-> a.heap]
       ELSE [req  |-> [q EXCEPT !.pc = "bawait", !.pending = Range(a.chosen)],
             heap |-> count_calls(a.heap, Range(a.chosen))]

RelayBegin(r, body) ==
    /\ req[r].pc = "idle"
    /\ \A x \in Slots : x < r => req[x].pc /= "idle"
    /\ total_calls' = total_calls + 1
    /\ LET method == body.method
           id_value == unwrap_or(body.id, 0)
           params_value == normalize(method, unwrap_or(body.params, JNull))
           ttl_ms == IF method \in DOMAIN cfg.cache_ttl THEN cfg.cache_ttl[method] ELSE 0
           g == cache_get(cache, cache_key(method, params_value), now)
           q == [NoReq EXCEPT !.body = body, !.id_value = id_value, !.method = method,
                              !.params_value = params_value, !.ttl_ms = ttl_ms]
       IN IF ttl_ms > 0
          THEN /\ cache' = g.map
               /\ IF g.hit /= None
                  THEN LET cached == IF g.hit[1].t = "obj"
                                     THEN [g.hit[1] EXCEPT !.id = Some(id_value)]
                                     ELSE g.hit[1]
                       IN /\ cache_hits' = cache_hits + 1
                          /\ Continue(r, returned(q, 200, cached))
                  ELSE /\ cache_hits' = cache_hits
                       /\ Continue(r, [q EXCEPT !.pc = "select"])
          ELSE /\ Continue(r, [q EXCEPT !.pc = "select"])
               /\ UNCHANGED <<cache, cache_hits>>
    /\ UNCHANGED <<lk, now, cfg, registry, prov, last_err_map, rr_main, sweep, watcher>>

RelaySelect(r) ==
    /\ req[r].pc = "select"
    /\ LET cands == select_candidates(cfg, registry, prov, now)
           q == [req[r] EXCEPT
                   !.cands = cands,
                   !.redundancy = Max(cfg.relay.broadcast_redundancy, 1),
                   !.tries = Max(cfg.relay.max_provider_tries, 1),
                   !.breaker_cfg = [ban_error_threshold |-> cfg.relay.ban_error_threshold,
                                    ban_seconds |-> cfg.relay.ban_seconds]]
       IN IF cands = <<>>
          THEN /\ Continue(r, returned(q, 500, error_body(q.id_value, -32000,
                                             <<"No healthy RPCs available">>)))
               /\ UNCHANGED <<prov, rr_main>>
          ELSE IF q.method \in cfg.relay.broadcast_methods
               THEN LET d == broadcast_dispatch(q, prov, now)
                    IN /\ Continue(r, d.req)
                       /\ prov' = d.heap
                       /\ UNCHANGED rr_main
               ELSE LET d == failover_iteration([q EXCEPT !.rr_idx = rr_main], prov, now)
                    IN /\ Continue(r, d.req)
                       /\ prov' = d.heap
                       /\ rr_main' = rr_main + 1
    /\ UNCHANGED <<lk, now, cfg, registry, last_err_map, total_calls, cache_hits, cache,
                   sweep, watcher>>

\* A loop test that allows one attempt more.
loop_continues_more(q) == q.attempt <= q.tries

\* while attempt < tries
loop_continues(q) == q.attempt < q.tries

\* The send of a failover attempt completes.  Success arm: breaker_success, cache
\* insert, return (200, v).  Failure arms: record the failure, then run the next
\* iteration of the loop up to its await, or return 502 when tries are exhausted.
FailoverReply(r, res) ==
    /\ req[r].pc = "await"
    /\ LET q == req[r]
           o == q.prov
           c == classify(res)
       IN IF c.ok
          THEN /\ prov' = [prov EXCEPT ![o] = breaker_success(prov[o])]
               /\ cache' = IF q.ttl_ms > 0
                           THEN insert_with_ttl(cache, cache_key(q.method, q.params_value),
                                                c.v, q.ttl_ms, now)
                           ELSE cache
               /\ Continue(r, returned(q, 200, c.v))
               /\ UNCHANGED last_err_map
          ELSE LET h1 == record_failure(prov, o, q.breaker_cfg, now)
                   q1 == [q EXCEPT !.last_err = c.msg, !.attempt = @ + 1, !.rr_idx = @ + 1]
               IN /\ last_err_map' = set_last_error(last_err_map, prov[o].url, c.reason)
                  /\ cache' = cache
                  /\ IF loop_continues(q1)
                     THEN LET d == failover_iteration(q1, h1, now)
                          IN /\ Continue(r, d.req)
                             /\ prov' = d.heap
                     ELSE /\ prov' = h1
                          /\ Continue(r, returned(q1, 502, error_body(q.id_value, -32603,
                                  <<"Upstream provider error after failover: ", q1.last_err>>)))
    /\ UNCHANGED <<lk, now, cfg, registry, rr_main, total_calls, cache_hits, sweep, watcher>>

\* An insert that overwrites what is there.
get_or_insert_always(opt, x) == Some(x)

\* Option::get_or_insert, as the Option after the call.
get_or_insert(opt, x) == IF opt = None THEN Some(x) ELSE opt

\* futs.next() yields the result of provider o.  Returning on a success drops
\* futs, and with it the attempts still pending.
BroadcastReply(r, o, res) ==
    /\ req[r].pc = "bawait"
    /\ o \in req[r].pending
    /\ LET q == req[r]
           c == classify(res)
       IN IF c.ok
          THEN /\ prov' = [prov EXCEPT ![o] = breaker_success(prov[o])]
               /\ cache' = IF q.ttl_ms > 0
                           THEN insert_with_ttl(cache, cache_key(q.method, q.params_value),
                                                c.v, q.ttl_ms, now)
                           ELSE cache
               /\ Continue(r, returned(q, 200, c.v))
               /\ UNCHANGED last_err_map
          ELSE LET q1 == [q EXCEPT !.first_err = get_or_insert(@, c.msg),
                                   !.pending = @ \ {o}]
               IN /\ prov' = record_failure(prov, o, q.breaker_cfg, now)
                  /\ last_err_map' = set_last_error(last_err_map, prov[o].url, c.reason)
                  /\ cache' = cache
                  /\ Continue(r, IF q1.pending = {}
                       THEN returned(q1, 502, error_body(q.id_value, -32603,
                               <<"All broadcast attempts failed: ",
                                 unwrap_or(q1.first_err, "unknown")>>))
                       ELSE q1)
    /\ UNCHANGED <<lk, now, cfg, registry, rr_main, total_calls, cache_hits, sweep, watcher>>

(***************************************************************************)
(* health.rs: health_loop.  A sweep snapshots the registry, one spawned    *)
(* task per provider probes it, and after the join the lag is computed.    *)
(***************************************************************************)
\* A probe task whose failure also forgets the measured latency.
probe_task_forget(p, res) ==
    IF res = None THEN [mark_healthy(p, FALSE) EXCEPT !.latency_ms = U64_MAX]
    ELSE mark_healthy([p EXCEPT !.latest_block = res[1].bn,
                                !.latency_ms = res[1].latency_ms], TRUE)

\* The result of one probe task: None when the send, the decode or the hex
\* parse failed, else Some([bn, latency_ms]).
probe_task(p, res) ==
    IF res = None THEN mark_healthy(p, FALSE)
    ELSE mark_healthy([p EXCEPT !.latest_block = res[1].bn,
                                !.latency_ms = res[1].latency_ms], TRUE)

\* A max_block that stays at its initial value.
max_block_of_zero(ok) == 0

\* max_block of the sweep: the greatest block number of ok_states, from 0.
max_block_of(ok) ==
    IF DOMAIN ok = {} THEN 0
    ELSE CHOOSE m \in {ok[o] : o \in DOMAIN ok} : \A o \in DOMAIN ok : ok[o] <= m

\* A lag loop that also marks a provider at the threshold.
lag_check_at_threshold(h, ok, max_behind) ==
    LET max_block == max_block_of(ok)
    IN [o \in DOMAIN h |->
          IF o \in DOMAIN ok
          THEN LET behind == saturating_sub(max_block, ok[o])
                   p == [h[o] EXCEPT !.behind = behind]
               IN IF behind >= max_behind THEN mark_healthy(p, FALSE) ELSE p
          ELSE h[o]]

\* The loop over ok_states after the join.
lag_check(h, ok, max_behind) ==
    LET max_block == max_block_of(ok)
    IN [o \in DOMAIN h |->
          IF o \in DOMAIN ok
          THEN LET behind == saturating_sub(max_block, ok[o])
                   p == [h[o] EXCEPT !.behind = behind]
               IN IF behind > max_behind THEN mark_healthy(p, FALSE) ELSE p
          ELSE h[o]]

NoSweep == [pc |-> "sleep", n |-> 0, max_behind |-> 0, all |-> <<>>,
            pending |-> {}, ok |-> <<>>]

SweepStart ==
    /\ sweep.pc = "sleep"
    /\ LET lst == all(registry)
       IN sweep' = IF lst = <<>>
                   THEN [sweep EXCEPT !.n = @ + 1]
                   ELSE [pc |-> "probing", n |-> sweep.n + 1,
                         max_behind |-> cfg.health_monitor.max_blocks_behind,
                         all |-> lst, pending |-> Range(lst), ok |-> <<>>]
    /\ reply' = None
    /\ UNCHANGED <<lk, now, cfg, registry, prov, last_err_map, rr_main, total_calls,
                   cache_hits, cache, req, watcher>>

Probe(o, res) ==
    /\ sweep.pc = "probing"
    /\ o \in sweep.pending
    /\ prov' = [prov EXCEPT ![o] = probe_task(prov[o], res)]
    /\ sweep' = [sweep EXCEPT
                   !.pending = @ \ {o},
                   !.ok = IF res = None THEN @
                          ELSE [x \in DOMAIN @ \cup {o} |->
                                  IF x = o THEN res[1].bn ELSE @[x]]]
    /\ reply' = None
    /\ UNCHANGED <<lk, now, cfg, registry, last_err_map, rr_main, total_calls,
                   cache_hits, cache, req, watcher>>

SweepFinish ==
    /\ sweep.pc = "probing"
    /\ sweep.pending = {}
    /\ prov' = lag_check(prov, sweep.ok, sweep.max_behind)
    /\ sweep' = [NoSweep EXCEPT !.n = sweep.n]
    /\ reply' = None
    /\ UNCHANGED <<lk, now, cfg, registry, last_err_map, rr_main, total_calls,
                   cache_hits, cache, req, watcher>>

(***************************************************************************)
(* main.rs: watch_config_and_apply.  A reload swaps the configuration      *)
(* under the config lock, then reconciles under the registry lock.         *)
(***************************************************************************)
NoWatch == [pc |-> "wait", n |-> 0, new_cfg |-> <<>>]

ReloadSwap(new_cfg) ==
    /\ watcher.pc = "wait"
    /\ cfg' = new_cfg
    /\ watcher' = [pc |-> "reconcile", n |-> watcher.n + 1, new_cfg |-> new_cfg]
    /\ reply' = None
    /\ UNCHANGED <<lk, now, registry, prov, last_err_map, rr_main, total_calls,
                   cache_hits, cache, req, sweep>>

ReloadReconcile ==
    /\ watcher.pc = "reconcile"
    /\ LET r == reconcile_registry(registry, watcher.new_cfg.rpc_endpoints, prov, now)
       IN /\ registry' = r.registry
          /\ prov' = r.heap
    /\ watcher' = [NoWatch EXCEPT !.n = watcher.n]
    /\ reply' = None
    /\ UNCHANGED <<lk, now, cfg, last_err_map, rr_main, total_calls, cache_hits, cache,
                   req, sweep>>

\* The clock advances.
Tick ==
    /\ now' = now + 1
    /\ reply' = None
    /\ UNCHANGED <<lk, cfg, registry, prov, last_err_map, rr_main, total_calls,
                   cache_hits, cache, req, sweep, watcher>>

(***************************************************************************)
(* The lock protocol.  Every task is a program over the locks: at each     *)
(* place it acquires one guard ("acq"), drops guards ("rel") or does work  *)
(* that touches no lock ("go"), and then continues at one of the places    *)
(* `to`, as the branches of the code allow.  cfg, registry, breaker_cfg    *)
(* and cache are tokio::sync::RwLock ("R" read, "W" write); bucket and     *)
(* breaker are the parking_lot::Mutex of one provider ("M"), which a loop   *)
(* over the providers visits once, or not at all when the provider is not  *)
(* in the list.  The handlers and the tasks above run each guarded block   *)
(* as one step; here the steps are the acquisitions and the releases.      *)
(***************************************************************************)
Acq(lock, mode, to) == [op |-> "acq", lock |-> lock, mode |-> mode, locks |-> {}, to |-> to]

Rel(locks, to) == [op |-> "rel", lock |-> "", mode |-> "", locks |-> locks, to |-> to]

Go(to) == [op |-> "go", lock |-> "", mode |-> "", locks |-> {}, to |-> to]

\* A relay that keeps the guards of its candidate block while it calls upstream.
HandlerProgramHolding ==
    [idle           |-> Go({"status_reg", "ttl_cfg"}),
     status_reg     |-> Acq("registry", "R", {"status_breaker", "status_done"}),
     status_breaker |-> Acq("breaker", "M", {"status_unlock"}),
     status_unlock  |-> Rel({"breaker"}, {"status_done"}),
     status_done    |-> Rel({"registry"}, {"idle"}),
     ttl_cfg        |-> Acq("cfg", "R", {"ttl_done"}),
     ttl_done       |-> Rel({"cfg"}, {"cache_get", "choose_cfg"}),
     cache_get      |-> Acq("cache", "W", {"cache_got"}),
     cache_got      |-> Rel({"cache"}, {"idle", "choose_cfg"}),
     choose_cfg     |-> Acq("cfg", "R", {"choose_reg"}),
     choose_reg     |-> Acq("registry", "R", {"banned", "choose_done"}),
     banned         |-> Acq("breaker", "M", {"banned_done"}),
     banned_done    |-> Rel({"breaker"}, {"choose_done"}),
     choose_done    |-> Rel({}, {"idle", "token"}),
     token          |-> Acq("bucket", "M", {"token_done"}),
     token_done     |-> Rel({"bucket"}, {"idle", "send"}),
     send           |-> Go({"on_success", "on_failure"}),
     on_success     |-> Acq("breaker", "M", {"success_done"}),
     success_done   |-> Rel({"breaker", "cfg", "registry"}, {"cache_insert", "idle"}),
     cache_insert   |-> Acq("cache", "W", {"inserted"}),
     inserted       |-> Rel({"cache"}, {"idle"}),
     on_failure     |-> Acq("breaker", "M", {"failure_done"}),
     failure_done   |-> Rel({"breaker", "cfg", "registry"}, {"token", "send", "idle"})]

\* relay.rs: an axum handler instance, serving status (73-92) or relay (94-318).
HandlerProgram ==
    [idle           |-> Go({"status_reg", "ttl_cfg"}),        \* a request arrives
     \* status: registry.read() (74); breaker.lock() of the provider (85); return (91)
     status_reg     |-> Acq("registry", "R", {"status_breaker", "status_done"}),
     status_breaker |-> Acq("breaker", "M", {"status_unlock"}),
     status_unlock  |-> Rel({"breaker"}, {"status_done"}),
     status_done    |-> Rel({"registry"}, {"idle"}),
     \* relay: the ttl block (117-120)
     ttl_cfg        |-> Acq("cfg", "R", {"ttl_done"}),
     ttl_done       |-> Rel({"cfg"}, {"cache_get", "choose_cfg"}),
     \* TtlCache::get takes inner.write() (30); a hit returns (129)
     cache_get      |-> Acq("cache", "W", {"cache_got"}),
     cache_got      |-> Rel({"cache"}, {"idle", "choose_cfg"}),
     \* the candidate block (134-151): cfg.read(), then registry.read(), then
     \* breaker_is_banned of the provider in healthy_candidates (323)
     choose_cfg     |-> Acq("cfg", "R", {"choose_reg"}),
     choose_reg     |-> Acq("registry", "R", {"banned", "choose_done"}),
     banned         |-> Acq("breaker", "M", {"banned_done"}),
     banned_done    |-> Rel({"breaker"}, {"choose_done"}),
     choose_done    |-> Rel({"cfg", "registry"}, {"idle", "token"}),
     \* try_consume_token of the candidate (180, 261); 429 when it does not admit
     token          |-> Acq("bucket", "M", {"token_done"}),
     token_done     |-> Rel({"bucket"}, {"idle", "send"}),
     \* the upstream HTTP call (send().await) and its outcome
     send           |-> Go({"on_success", "on_failure"}),
     \* breaker_success, then the cache insert when ttl_ms > 0
     on_success     |-> Acq("breaker", "M", {"success_done"}),
     success_done   |-> Rel({"breaker"}, {"cache_insert", "idle"}),
     cache_insert   |-> Acq("cache", "W", {"inserted"}),
     inserted       |-> Rel({"cache"}, {"idle"}),
     \* breaker_failure (LAST_ERR, a parking_lot lock taken and dropped inside
     \* set_last_error, is left out); the next try, the next reply, or 502
     on_failure     |-> Acq("breaker", "M", {"failure_done"}),
     failure_done   |-> Rel({"breaker"}, {"token", "send", "idle"})]

\* health.rs: health_loop.  The probes and the lag loop touch atomics only.
HealthProgram ==
    [loop     |-> Acq("cfg", "R", {"cfg_read"}),              \* 18
     cfg_read |-> Rel({"cfg"}, {"reg"}),                      \* 23
     reg      |-> Acq("registry", "R", {"reg_read"}),         \* 25
     reg_read |-> Rel({"registry"}, {"probe", "sleep"}),      \* 25, 26
     probe    |-> Go({"sleep"}),                              \* 32-85
     sleep    |-> Go({"loop"})]                               \* 27, 86

\* main.rs: watch_config_and_apply.  reconcile_registry replaces the bucket of
\* a kept provider under the registry write guard (state.rs 134, 150).
WatcherProgram ==
    [recv           |-> Go({"swap"}),                             \* 118-120
     swap           |-> Acq("cfg", "W", {"swapped"}),             \* 123
     swapped        |-> Rel({"cfg"}, {"bcfg"}),                   \* 125
     bcfg           |-> Acq("breaker_cfg", "W", {"bcfg_done"}),   \* 128
     bcfg_done      |-> Rel({"breaker_cfg"}, {"reconcile"}),      \* 131
     reconcile      |-> Acq("registry", "W", {"bucket_swap", "reconciled"}),  \* 134
     bucket_swap    |-> Acq("bucket", "M", {"bucket_swapped"}),
     bucket_swapped |-> Rel({"bucket"}, {"reconciled"}),
     reconciled     |-> Rel({"registry"}, {"recv"})]              \* 136

\* The tasks, as <<kind, instance>>.
Handler(r) == <<"handler", r>>

HealthTask == <<"health", 0>>

WatcherTask == <<"watcher", 0>>

Tasks == {Handler(r) : r \in Slots} \cup {HealthTask, WatcherTask}

Program(p) ==
    IF p[1] = "handler" THEN HandlerProgram
    ELSE IF p[1] = "health" THEN HealthProgram ELSE WatcherProgram

\* The place where a task waits for its next event.
Rest(p) == IF p[1] = "handler" THEN "idle" ELSE IF p[1] = "health" THEN "sleep" ELSE "recv"

AtRest == [p \in Tasks |-> [pc |-> Rest(p), held |-> {}]]

Instr(p) == Program(p)[lk[p].pc]

Holds(p, lock) == \E g \in lk[p].held : g.lock = lock

Awaits(p, lock, mode) ==
    Instr(p).op = "acq" /\ Instr(p).lock = lock /\ Instr(p).mode = mode

\* The tasks that stand between task p and the guard it awaits.  A tokio
\* RwLock queues its waiters first-in first-out: a read waits for the writer
\* that holds the lock and for a write queued before it; a write, and a
\* mutex lock, wait for every holder.
Blockers(p) ==
    LET i == Instr(p)
    IN IF i.op /= "acq" THEN {}
       ELSE IF i.mode = "R"
       THEN {x \in Tasks \ {p} : \/ \E g \in lk[x].held : g.lock = i.lock /\ g.mode = "W"
                                 \/ Awaits(x, i.lock, "W")}
       ELSE {x \in Tasks : Holds(x, i.lock)}

\* Task p at an acquisition is granted the guard.
Acquire(p) ==
    LET i == Instr(p)
    IN /\ i.op = "acq"
       /\ Blockers(p) = {}
       /\ \E t \in i.to :
             lk' = [lk EXCEPT ![p] = [pc |-> t,
                                      held |-> @.held \cup {[lock |-> i.lock, mode |-> i.mode]}]]

\* Task p drops the guards whose scope ends.
Release(p) ==
    LET i == Instr(p)
    IN /\ i.op = "rel"
       /\ \E t \in i.to :
             lk' = [lk EXCEPT ![p] = [pc |-> t,
                                      held |-> {g \in @.held : g.lock \notin i.locks}]]

\* Task p takes a step that touches no lock.
Proceed(p) ==
    LET i == Instr(p)
    IN /\ i.op = "go"
       /\ \E t \in i.to : lk' = [lk EXCEPT ![p].pc = t]

Data == <<now, cfg, registry, prov, last_err_map, rr_main, total_calls,
          cache_hits, cache, req, reply, sweep, watcher>>

\* A step of task p once its event has come: everything but leaving Rest(p).
Run(p) ==
    /\ \/ Acquire(p)
       \/ Release(p)
       \/ lk[p].pc /= Rest(p) /\ Proceed(p)
    /\ UNCHANGED Data

\* The event task p rests for arrives: a request, the sleep's end, a file event.
Wake(p) ==
    /\ lk[p].pc = Rest(p)
    /\ Proceed(p)
    /\ UNCHANGED Data

(***************************************************************************)
(* The configurations and the inputs of the model.                         *)
(***************************************************************************)
Endpoint(url, max_tps, weight) == [url |-> url, max_tps |-> max_tps, weight |-> weight]

\* A and B primary, A limited to 1 tps with weight 2; no secondary.
ConfigOne ==
    [rpc_endpoints |->
        [primary   |-> <<Endpoint("A", Some(1), 2), Endpoint("B", None, 1)>>,
         secondary |-> <<>>],
     relay |->
        [latency_threshold_ms |-> None, max_provider_tries |-> 2,
         broadcast_methods |-> {"eth_sendRawTransaction"}, broadcast_redundancy |-> 2,
         ban_error_threshold |-> 2, ban_seconds |-> 1],
     health_monitor |-> [max_blocks_behind |-> 1],
     cache_ttl |-> <<>>]

\* A moves to the secondary tier with another max_tps and weight, B leaves,
\* C is new; the latency gate is on and the first failure bans.
ConfigTwo ==
    [rpc_endpoints |->
        [primary   |-> <<Endpoint("C", None, 0)>>,
         secondary |-> <<Endpoint("A", Some(2), 1)>>],
     relay |->
        [latency_threshold_ms |-> Some(2), max_provider_tries |-> 1,
         broadcast_methods |-> {"eth_sendRawTransaction"}, broadcast_redundancy |-> 1,
         ban_error_threshold |-> 1, ban_seconds |-> 1],
     health_monitor |-> [max_blocks_behind |-> 0],
     cache_ttl |-> <<>>]

Configs == {ConfigOne, ConfigTwo}

\* The client requests: {method, id, params}, id and params Options.
Bodies ==
    {[method |-> "eth_call", id |-> Some(2), params |-> None],
     [method |-> "eth_sendRawTransaction", id |-> Some(1), params |-> Some(JArr(<<JStr("0x")>>))]}

\* What an upstream may answer to the request of handler state q.
UpstreamResults(q) ==
    {[k |-> "timeout"],
     [k |-> "http", status |-> 200, body |-> Some(JObj(Some(q.id_value), Some("0x1"), None))],
     [k |-> "http", status |-> 200, body |-> Some(JObj(Some(7), Some("0x1"), None))]}

\* What a probe may find.
ProbeResults ==
    {None, Some([bn |-> 5, latency_ms |-> 1])}

\* The state after AppState::new(c) at clock 0.
InitWith(c) ==
    /\ now = 0
    /\ cfg = c
    /\ registry = build_registry(c.rpc_endpoints)
    /\ prov = build_registry_heap(c.rpc_endpoints, 0)
    /\ last_err_map = <<>>
    /\ rr_main = 0
    /\ total_calls = 0
    /\ cache_hits = 0
    /\ cache = <<>>
    /\ req = [r \in Slots |-> NoReq]
    /\ reply = None
    /\ sweep = NoSweep
    /\ watcher = NoWatch
    /\ lk = AtRest

\* The events so far: requests received, sweeps started, reloads, and the
\* seconds the clock has entered.
Events(t) == total_calls + sweep.n + watcher.n + (t + TicksPerSec - 1) \div TicksPerSec

\* The environment may raise one more event.
Budget == Events(now) < MaxEvents

Init == \E c \in Configs : InitWith(c)

Next ==
    \/ Budget /\ \E r \in Slots, body \in Bodies : RelayBegin(r, body)
    \/ \E r \in Slots : RelaySelect(r)
    \/ \E r \in Slots : \E res \in UpstreamResults(req[r]) : FailoverReply(r, res)
    \/ \E r \in Slots : \E o \in req[r].pending : \E res \in UpstreamResults(req[r]) :
          BroadcastReply(r, o, res)
    \/ Budget /\ SweepStart
    \/ \E o \in sweep.pending, res \in ProbeResults : Probe(o, res)
    \/ SweepFinish
    \/ Budget /\ \E c \in Configs : ReloadSwap(c)
    \/ ReloadReconcile
    \/ Events(now + 1) <= MaxEvents /\ Tick

Spec == Init /\ [][Next]_vars

(***************************************************************************)
(* The relay with a response cache: configurations whose cache_ttl makes   *)
(* eth_call cacheable, for 1500 ms and for 500 ms, requests for that       *)
(* method, reloads between the two and the clock.                          *)
(***************************************************************************)
MaxCacheEvents == 4  \* as MaxEvents, for the runs with a cache

ConfigCacheLong ==
    [rpc_endpoints |-> [primary |-> <<Endpoint("A", None, 1)>>, secondary |-> <<>>],
     relay |-> [latency_threshold_ms |-> None, max_provider_tries |-> 1,
                broadcast_methods |-> {"eth_sendRawTransaction"},
                broadcast_redundancy |-> 1, ban_error_threshold |-> 3,
                ban_seconds |-> 1],
     health_monitor |-> [max_blocks_behind |-> 1],
     cache_ttl |-> ("eth_call" :> 1500)]

ConfigCacheShort == [ConfigCacheLong EXCEPT !.cache_ttl = ("eth_call" :> 500)]

CacheConfigs == {ConfigCacheLong, ConfigCacheShort}

CacheBodies == {[method |-> "eth_call", id |-> Some(2), params |-> None],
                [method |-> "eth_call", id |-> Some(3), params |-> Some(JArr(<<JStr("0x")>>))]}

BudgetCache == Events(now) < MaxCacheEvents

InitCache == \E c \in CacheConfigs : InitWith(c)

NextCache ==
    \/ BudgetCache /\ \E r \in Slots, body \in CacheBodies : RelayBegin(r, body)
    \/ \E r \in Slots : RelaySelect(r)
    \/ \E r \in Slots : \E res \in UpstreamResults(req[r]) : FailoverReply(r, res)
    \/ BudgetCache /\ \E c \in CacheConfigs : ReloadSwap(c)
    \/ ReloadReconcile
    \/ Events(now + 1) <= MaxCacheEvents /\ Tick

SpecCache == InitCache /\ [][NextCache]_vars

(***************************************************************************)
(* The relay with every kind of upstream result: a timeout, a transport    *)
(* failure, a body that does not parse, a body with an error member and a  *)
(* success.  ConfigOne allows two tries over two providers; ConfigSingle   *)
(* has one provider of one token per second, one try, and bans at the      *)
(* first failure.                                                          *)
(***************************************************************************)
MaxOutcomeEvents == 3  \* as MaxEvents, for the runs with every upstream result

ConfigSingle ==
    [rpc_endpoints |-> [primary |-> <<Endpoint("A", Some(1), 1)>>, secondary |-> <<>>],
     relay |-> [latency_threshold_ms |-> None, max_provider_tries |-> 0,
                broadcast_methods |-> {"eth_sendRawTransaction"},
                broadcast_redundancy |-> 0, ban_error_threshold |-> 1,
                ban_seconds |-> 1],
     health_monitor |-> [max_blocks_behind |-> 1],
     cache_ttl |-> <<>>]

OutcomeConfigs == {ConfigOne, ConfigSingle}

OutcomeResults(q) ==
    {[k |-> "timeout"],
     [k |-> "transport"],
     [k |-> "http", status |-> 200, body |-> None],
     [k |-> "http", status |-> 200, body |-> Some(JObj(Some(q.id_value), None, Some(JStr("boom"))))],
     [k |-> "http", status |-> 200, body |-> Some(JObj(Some(q.id_value), Some("0x10"), None))]}

BudgetOutcome == Events(now) < MaxOutcomeEvents

InitOutcome == \E c \in OutcomeConfigs : InitWith(c)

NextOutcome ==
    \/ BudgetOutcome /\ \E r \in Slots, body \in Bodies : RelayBegin(r, body)
    \/ \E r \in Slots : RelaySelect(r)
    \/ \E r \in Slots : \E res \in OutcomeResults(req[r]) : FailoverReply(r, res)
    \/ \E r \in Slots : \E o \in req[r].pending : \E res \in OutcomeResults(req[r]) :
          BroadcastReply(r, o, res)
    \/ Events(now + 1) <= MaxOutcomeEvents /\ Tick

SpecOutcome == InitOutcome /\ [][NextOutcome]_vars

(***************************************************************************)
(* The health prober with probes that report different block numbers:     *)
(* sweeps over two providers, a reload that replaces one of them and       *)
(* changes max_blocks_behind, and failover requests between the sweeps.    *)
(***************************************************************************)
MaxHealthEvents == 3  \* as MaxEvents, for the runs of the health prober

\* A and B primary and unlimited; a provider may lag one block.
ConfigHealthOne ==
    [rpc_endpoints |->
        [primary   |-> <<Endpoint("A", None, 1), Endpoint("B", None, 1)>>,
         secondary |-> <<>>],
     relay |->
        [latency_threshold_ms |-> None, max_provider_tries |-> 1,
         broadcast_methods |-> {"eth_sendRawTransaction"}, broadcast_redundancy |-> 1,
         ban_error_threshold |-> 3, ban_seconds |-> 1],
     health_monitor |-> [max_blocks_behind |-> 1],
     cache_ttl |-> <<>>]

\* C replaces B; no lag is allowed.
ConfigHealthTwo ==
    [ConfigHealthOne EXCEPT
        !.rpc_endpoints.primary = <<Endpoint("A", None, 1), Endpoint("C", None, 1)>>,
        !.health_monitor.max_blocks_behind = 0]

HealthConfigs == {ConfigHealthOne, ConfigHealthTwo}

HealthBodies == {[method |-> "eth_call", id |-> Some(2), params |-> None]}

\* What a probe may find: a failure, or one of three block numbers.
HealthProbeResults ==
    {None, Some([bn |-> 5, latency_ms |-> 1]), Some([bn |-> 6, latency_ms |-> 1]),
     Some([bn |-> 7, latency_ms |-> 1])}

BudgetHealth == Events(now) < MaxHealthEvents

NextHealth ==
    \/ BudgetHealth /\ \E r \in Slots, body \in HealthBodies : RelayBegin(r, body)
    \/ \E r \in Slots : RelaySelect(r)
    \/ \E r \in Slots : \E res \in UpstreamResults(req[r]) : FailoverReply(r, res)
    \/ BudgetHealth /\ SweepStart
    \/ \E o \in sweep.pending, res \in HealthProbeResults : Probe(o, res)
    \/ SweepFinish
    \/ BudgetHealth /\ \E c \in HealthConfigs : ReloadSwap(c)
    \/ ReloadReconcile
    \/ Events(now + 1) <= MaxHealthEvents /\ Tick

SpecHealth == InitWith(ConfigHealthOne) /\ [][NextHealth]_vars

(***************************************************************************)
(* The token bucket under load: one provider, unlimited or limited to 1    *)
(* or 2 requests per second, failover requests with a single try, and the  *)
(* clock.  Every request calls try_take(1) on the provider's bucket, and   *)
(* call_count counts the calls that were admitted.                         *)
(***************************************************************************)
MaxBucketEvents == 5  \* as MaxEvents, for the runs of the token bucket

ConfigBucket(max_tps) ==
    [rpc_endpoints |-> [primary |-> <<Endpoint("A", max_tps, 1)>>, secondary |-> <<>>],
     relay |->
        [latency_threshold_ms |-> None, max_provider_tries |-> 1,
         broadcast_methods |-> {"eth_sendRawTransaction"}, broadcast_redundancy |-> 1,
         ban_error_threshold |-> 9, ban_seconds |-> 1],
     health_monitor |-> [max_blocks_behind |-> 1],
     cache_ttl |-> <<>>]

BucketConfigs == {ConfigBucket(None), ConfigBucket(Some(1)), ConfigBucket(Some(2))}

BudgetBucket == Events(now) < MaxBucketEvents

InitBucket == \E c \in BucketConfigs : InitWith(c)

NextBucket ==
    \/ BudgetBucket /\ \E r \in Slots, body \in HealthBodies : RelayBegin(r, body)
    \/ \E r \in Slots : RelaySelect(r)
    \/ \E r \in Slots : \E res \in UpstreamResults(req[r]) : FailoverReply(r, res)
    \/ Events(now + 1) <= MaxBucketEvents /\ Tick

SpecBucket == InitBucket /\ [][NextBucket]_vars

(***************************************************************************)
(* The relay against upstreams that also answer with HTTP status 500 and   *)
(* 503: one provider, one attempt per request, failover and broadcast.     *)
(***************************************************************************)
\* The results of OutcomeResults, and two responses with a non-2xx status:
\* a 500 whose body is a JSON-RPC result, a 503 whose body is no JSON.
StatusResults(q) ==
    OutcomeResults(q) \cup
    {[k |-> "http", status |-> 500, body |-> Some(JObj(Some(q.id_value), Some("0x10"), None))],
     [k |-> "http", status |-> 503, body |-> None]}

NextStatus ==
    \/ BudgetOutcome /\ \E r \in Slots, body \in Bodies : RelayBegin(r, body)
    \/ \E r \in Slots : RelaySelect(r)
    \/ \E r \in Slots : \E res \in StatusResults(req[r]) : FailoverReply(r, res)
    \/ \E r \in Slots : \E o \in req[r].pending : \E res \in StatusResults(req[r]) :
          BroadcastReply(r, o, res)
    \/ Events(now + 1) <= MaxOutcomeEvents /\ Tick

SpecStatus == InitWith(ConfigSingle) /\ [][NextStatus]_vars

(***************************************************************************)
(* Weighted rotation: two unlimited primaries with weights 2 and 1, or 1   *)
(* and 3, failover requests only, every attempt answered with success.     *)
(***************************************************************************)
MaxWeightEvents == 8  \* as MaxEvents, for the runs of the weighted rotation

ConfigWeights(wa, wb) ==
    [rpc_endpoints |->
        [primary   |-> <<Endpoint("A", None, wa), Endpoint("B", None, wb)>>,
         secondary |-> <<>>],
     relay |->
        [latency_threshold_ms |-> None, max_provider_tries |-> 2,
         broadcast_methods |-> {"eth_sendRawTransaction"}, broadcast_redundancy |-> 1,
         ban_error_threshold |-> 3, ban_seconds |-> 1],
     health_monitor |-> [max_blocks_behind |-> 1],
     cache_ttl |-> <<>>]

WeightConfigs == {ConfigWeights(2, 1), ConfigWeights(1, 3)}

\* An upstream that answers every attempt with a result.
WeightResults(q) ==
    {[k |-> "http", status |-> 200, body |-> Some(JObj(Some(q.id_value), Some("0x1"), None))]}

BudgetWeights == Events(now) < MaxWeightEvents

InitWeights == \E c \in WeightConfigs : InitWith(c)

NextWeights ==
    \/ BudgetWeights /\ \E r \in Slots, body \in HealthBodies : RelayBegin(r, body)
    \/ \E r \in Slots : RelaySelect(r)
    \/ \E r \in Slots : \E res \in WeightResults(req[r]) : FailoverReply(r, res)

SpecWeights == InitWeights /\ [][NextWeights]_vars

(***************************************************************************)
(* Requests for eth_getTransactionCount with every shape of params the     *)
(* normalisation distinguishes, against one unlimited provider that        *)
(* answers with a result.                                                  *)
(***************************************************************************)
NormalizeParams ==
    {None,
     Some(JNull),
     Some(JStr("0xa")),
     Some(JArr(<<>>)),
     Some(JArr(<<JStr("0xa")>>)),
     Some(JArr(<<JStr("0xa"), JStr("latest")>>)),
     Some(JArr(<<JStr("0xa"), JStr("pending")>>)),
     Some(JArr(<<JStr("0xa"), JStr("latest"), JStr("0x1")>>))}

NormalizeBodies ==
    {[method |-> m, id |-> Some(1), params |-> p] :
        m \in {"eth_getTransactionCount", "eth_call"}, p \in NormalizeParams}

NextNormalize ==
    \/ BudgetOutcome /\ \E r \in Slots, body \in NormalizeBodies : RelayBegin(r, body)
    \/ \E r \in Slots : RelaySelect(r)
    \/ \E r \in Slots : \E res \in WeightResults(req[r]) : FailoverReply(r, res)

SpecNormalize == InitWith(ConfigBucket(None)) /\ [][NextNormalize]_vars

(***************************************************************************)
(* Filling the cache: one provider, a configuration that caches eth_call   *)
(* only and one that caches eth_sendRawTransaction only, reloads between   *)
(* the two, failover and broadcast requests, every kind of upstream        *)
(* result.                                                                 *)
(***************************************************************************)
ConfigFillCall == [ConfigCacheLong EXCEPT !.relay.ban_error_threshold = 1]

ConfigFillSend == [ConfigFillCall EXCEPT !.cache_ttl = ("eth_sendRawTransaction" :> 500)]

FillConfigs == {ConfigFillCall, ConfigFillSend}

InitFill == \E c \in FillConfigs : InitWith(c)

NextFill ==
    \/ BudgetCache /\ \E r \in Slots, body \in Bodies : RelayBegin(r, body)
    \/ \E r \in Slots : RelaySelect(r)
    \/ \E r \in Slots : \E res \in OutcomeResults(req[r]) : FailoverReply(r, res)
    \/ \E r \in Slots : \E o \in req[r].pending : \E res \in OutcomeResults(req[r]) :
          BroadcastReply(r, o, res)
    \/ BudgetCache /\ \E c \in FillConfigs : ReloadSwap(c)
    \/ ReloadReconcile
    \/ Events(now + 1) <= MaxCacheEvents /\ Tick

SpecFill == InitFill /\ [][NextFill]_vars

(***************************************************************************)
(* Broadcast dispatch: three primaries, A (weight 2) and C limited to 1    *)
(* request per second, B unlimited; redundancy 2 or 1; the latency gate    *)
(* off or at 3 ms; sweeps whose probes measure a latency of 1 or 3 ms;     *)
(* broadcast requests only.                                                *)
(***************************************************************************)
MaxBroadcastEvents == 3  \* as MaxEvents, for the runs of the broadcast dispatch

ConfigBroadcast(redundancy) ==
    [rpc_endpoints |->
        [primary   |-> <<Endpoint("A", Some(1), 2), Endpoint("B", None, 1),
                         Endpoint("C", Some(1), 1)>>,
         secondary |-> <<>>],
     relay |->
        [latency_threshold_ms |-> None, max_provider_tries |-> 2,
         broadcast_methods |-> {"eth_sendRawTransaction"},
         broadcast_redundancy |-> redundancy,
         ban_error_threshold |-> 3, ban_seconds |-> 1],
     health_monitor |-> [max_blocks_behind |-> 1],
     cache_ttl |-> <<>>]

\* Redundancy 2 or 1 without latency gate, and redundancy 2 with the gate
\* at 3 ms.
BroadcastConfigs ==
    {ConfigBroadcast(2), ConfigBroadcast(1),
     [ConfigBroadcast(2) EXCEPT !.relay.latency_threshold_ms = Some(3)]}

BroadcastBodies ==
    {[method |-> "eth_sendRawTransaction", id |-> Some(1),
      params |-> Some(JArr(<<JStr("0x")>>))]}

BroadcastProbeResults ==
    {None, Some([bn |-> 5, latency_ms |-> 1]), Some([bn |-> 5, latency_ms |-> 3])}

\* A timeout, or a response with a result.
BroadcastResults(q) == {[k |-> "timeout"]} \cup WeightResults(q)

BudgetBroadcast == Events(now) < MaxBroadcastEvents

InitBroadcast == \E c \in BroadcastConfigs : InitWith(c)

NextBroadcast ==
    \/ BudgetBroadcast /\ \E r \in Slots, body \in BroadcastBodies : RelayBegin(r, body)
    \/ \E r \in Slots : RelaySelect(r)
    \/ \E r \in Slots : \E o \in req[r].pending : \E res \in BroadcastResults(req[r]) :
          BroadcastReply(r, o, res)
    \/ BudgetBroadcast /\ SweepStart
    \/ \E o \in sweep.pending, res \in BroadcastProbeResults : Probe(o, res)
    \/ SweepFinish

SpecBroadcast == InitBroadcast /\ [][NextBroadcast]_vars

(***************************************************************************)
(* The lock protocol of all tasks together: two handler instances, the     *)
(* health loop and the config watcher, interleaved one lock step at a time.*)
(***************************************************************************)
NextLocks ==
    \/ \E p \in Tasks : Wake(p)
    \/ \E p \in Tasks : Run(p)

\* The tokio runtime polls every ready task, and a queued lock request is
\* served in turn; no request, sleep or file event is bound to come.
FairLocks == \A p \in Tasks : SF_vars(Run(p))

SpecLocks == InitWith(ConfigOne) /\ [][NextLocks]_vars /\ FairLocks

(***************************************************************************)
(* What a step did, read off the handler states before and after it.       *)
(***************************************************************************)
\* Handler r issues an attempt to object o in this step.
FailoverIssued(r, o) ==
    /\ req'[r].pc = "await"
    /\ req'[r].prov = o
    /\ \/ req[r].pc = "select"
       \/ req[r].pc = "await" /\ req'[r].attempt = req[r].attempt + 1

BroadcastIssued(r, o) ==
    /\ req[r].pc = "select"
    /\ req'[r].pc = "bawait"
    /\ o \in req'[r].pending

IssuedBy(r, o) == FailoverIssued(r, o) \/ BroadcastIssued(r, o)

NumIssued(o) == Cardinality({r \in Slots : IssuedBy(r, o)})

\* A handler returned status 200 in this step.
Replied200 == reply' /= None /\ reply'[1].status = 200

\* The attempt of handler r on object o ends in failure in this step.
FailedOn(r, o) ==
    /\ req'[r] /= req[r]
    /\ ~Replied200
    /\ \/ req[r].pc = "await" /\ req[r].prov = o
       \/ req[r].pc = "bawait" /\ o \in req[r].pending /\ o \notin req'[r].pending

\* The failover attempt of handler r on object o ends in success in this step.
SucceededOn(r, o) ==
    /\ req'[r] /= req[r]
    /\ Replied200
    /\ req[r].pc = "await"
    /\ req[r].prov = o

NumFailed(o) == Cardinality({r \in Slots : FailedOn(r, o)})

Registered == Range(all(registry))

Unbanned(p, t) == now_epoch(t) >= p.breaker.banned_until_epoch

(***************************************************************************)
(* C1.  In every reachable state, whatever sweeps, failed attempts, bans   *)
(* and reloads led to it, the candidate list selection produces from the   *)
(* registry holds only registered providers that are healthy and not       *)
(* banned (now_epoch >= banned_until_epoch) in that state.                 *)
(***************************************************************************)
C1_SelectionSafe ==
    \A o \in Range(select_candidates(cfg, registry, prov, now)) :
        /\ o \in Registered
        /\ prov[o].healthy
        /\ Unbanned(prov[o], now)

\* A handler is about to select while a registered provider is healthy but
\* banned, and selection still finds a candidate.
C1_Witness ==
    /\ \E r \in Slots : req[r].pc = "select"
    /\ \E o \in Registered : prov[o].healthy /\ ~Unbanned(prov[o], now)
    /\ select_candidates(cfg, registry, prov, now) /= <<>>

(***************************************************************************)
(* C2 as claimed.  No attempt is issued to a provider that is banned at    *)
(* the moment the attempt is issued.                                       *)
(***************************************************************************)
C2_NoAttemptWhileBanned ==
    [][\A o \in DOMAIN prov :
          NumIssued(o) > 0 => Unbanned(prov'[o], now')]_vars

(***************************************************************************)
(* C2 as amended.  Every attempt goes to a member of the candidate         *)
(* snapshot of its request; the first attempt is issued in the step that   *)
(* takes the snapshot, to a provider healthy and not banned then, and the  *)
(* later attempts of the request reuse the same snapshot unchanged.        *)
(***************************************************************************)
C2_AttemptsFromSnapshot ==
    [][\A r \in Slots : \A o \in DOMAIN prov :
          IssuedBy(r, o) =>
            /\ o \in Range(req'[r].cands)
            /\ IF req[r].pc = "select"
               THEN prov[o].healthy /\ Unbanned(prov[o], now) /\ o \in Registered
               ELSE req'[r].cands = req[r].cands]_vars

\* A handler awaits its second attempt on a provider that is banned.
C2_Witness ==
    \E r \in Slots :
        /\ req[r].pc = "await"
        /\ req[r].attempt >= 1
        /\ ~Unbanned(prov[req[r].prov], now)

(***************************************************************************)
(* C3 as claimed.  The id of every response the handler returns equals the *)
(* id of the request it answers.                                           *)
(***************************************************************************)
C3_ResponseIdEqualsRequestId ==
    reply /= None => get_id(reply[1].body) = reply[1].request.id

(***************************************************************************)
(* C4.  Every attempt issued to a provider with a finite bucket debits one *)
(* whole token in the step that issues it, from a balance that held at     *)
(* least one after the refill due at that moment; no step issues two       *)
(* attempts on one bucket, and the balance never goes below zero.          *)
(***************************************************************************)
C4_TokenPerAttempt ==
    [][\A o \in DOMAIN prov :
          /\ NumIssued(o) <= 1
          /\ (NumIssued(o) = 1 /\ prov[o].bucket.capacity /= INFINITY) =>
               LET b == prov[o].bucket
                   balance == Min(b.tokens + (now - b.last) * b.refill_per_sec, b.capacity)
               IN /\ balance >= TicksPerSec
                  /\ prov'[o].bucket.tokens = balance - TicksPerSec
          /\ prov'[o].bucket.capacity /= INFINITY => prov'[o].bucket.tokens >= 0]_vars

\* Two handlers raced for the one token of a provider: one awaits it, the
\* bucket is empty, and the other, whose rotation starts at that provider,
\* awaits another provider.
C4_Witness ==
    \E r1, r2 \in Slots :
        /\ req[r1].pc = "await" /\ req[r2].pc = "await"
        /\ req[r1].prov /= req[r2].prov
        /\ prov[req[r1].prov].bucket.capacity = TicksPerSec
        /\ prov[req[r1].prov].bucket.tokens = 0
        /\ rotate_left(req[r2].cands, req[r2].rr_idx)[1] = req[r1].prov

(***************************************************************************)
(* C5.  In every step, call_count of every provider grows by the number of *)
(* attempts issued to it in that step and errors by the number of its      *)
(* attempts that end in failure in that step; so a successful attempt, a   *)
(* cache hit, a sweep, a reload or a clock tick changes neither.           *)
(***************************************************************************)
C5_CountersFollowAttempts ==
    [][\A o \in DOMAIN prov :
          /\ prov'[o].call_count = prov[o].call_count + NumIssued(o)
          /\ prov'[o].errors = prov[o].errors + NumFailed(o)]_vars

\* A provider has had a successful and a failed attempt, one of them on the
\* broadcast path, which is awaiting it.
C5_Witness ==
    \E o \in DOMAIN prov :
        /\ prov[o].errors = 1
        /\ prov[o].call_count = 3
        /\ \E r \in Slots : req[r].pc = "bawait" /\ o \in req[r].pending

(***************************************************************************)
(* C6.  banned_until_epoch of a provider changes only in a step in which   *)
(* one of its attempts fails.  That step raises fail_streak by one; if the *)
(* result reaches the ban_error_threshold of the failing request, it sets  *)
(* banned_until_epoch to now_epoch + ban_seconds and fail_streak to 0, and *)
(* otherwise it leaves banned_until_epoch alone.  A success only resets    *)
(* fail_streak, so the streak counts the failures since the last success   *)
(* or ban.                                                                 *)
(***************************************************************************)
C6_BanExactlyAtThreshold ==
    [][\A o \in DOMAIN prov :
          LET F == {r \in Slots : FailedOn(r, o)}
              br == prov[o].breaker
          IN IF F /= {}
             THEN LET bcfg == req[CHOOSE r \in F : TRUE].breaker_cfg
                      streak == br.fail_streak + 1
                  IN IF streak >= bcfg.ban_error_threshold
                     THEN prov'[o].breaker =
                            [fail_streak |-> 0,
                             banned_until_epoch |-> now_epoch(now) + bcfg.ban_seconds]
                     ELSE prov'[o].breaker =
                            [fail_streak |-> streak,
                             banned_until_epoch |-> br.banned_until_epoch]
             ELSE /\ prov'[o].breaker.banned_until_epoch = br.banned_until_epoch
                  /\ \/ prov'[o].breaker.fail_streak = br.fail_streak
                     \/ Replied200 /\ prov'[o].breaker.fail_streak = 0
                  /\ (\E r \in Slots : SucceededOn(r, o)) =>
                        prov'[o].breaker.fail_streak = 0]_vars

\* A provider was banned by its second failure in a row, under a threshold
\* of 2, and another provider holds a streak of 1 without a ban.
C6_Witness ==
    /\ \E o \in DOMAIN prov :
          /\ prov[o].breaker.banned_until_epoch > 0
          /\ prov[o].breaker.fail_streak = 0
          /\ prov[o].errors = 2
          /\ cfg.relay.ban_error_threshold = 2
    /\ \E o \in DOMAIN prov :
          /\ prov[o].breaker.banned_until_epoch = 0
          /\ prov[o].breaker.fail_streak = 1

C8_PrimariesPreempt ==
    /\ [](LET sel == Range(select_candidates(cfg, registry, prov, now))
              primOK == {o \in Range(registry.primaries) :
                            prov[o].healthy /\ Unbanned(prov[o], now)}
          IN IF primOK /= {}
             THEN sel /= {} /\ sel \subseteq Range(registry.primaries)
             ELSE sel \subseteq Range(registry.secondaries))
    /\ [][\A r \in Slots :
            (req[r].pc = "select" /\ req'[r].pc \in {"await", "bawait"}) =>
               IF \E o \in Range(registry.primaries) :
                     prov[o].healthy /\ Unbanned(prov[o], now)
               THEN /\ Range(req'[r].cands) \subseteq Range(registry.primaries)
                    /\ \A o \in DOMAIN prov : IssuedBy(r, o) => o \in Range(registry.primaries)
               ELSE Range(req'[r].cands) \subseteq Range(registry.secondaries)]_vars

\* A request awaits a secondary it selected while the only primary was
\* banned; the ban has expired and selection is back to primaries only.
C8_Witness ==
    \E r \in Slots :
        /\ req[r].pc = "await"
        /\ req[r].prov \in Range(registry.secondaries)
        /\ \E o \in Range(registry.primaries) :
              /\ prov[o].breaker.banned_until_epoch > 0
              /\ prov[o].healthy /\ Unbanned(prov[o], now)
        /\ Range(select_candidates(cfg, registry, prov, now)) \subseteq Range(registry.primaries)

(***************************************************************************)
(* The reconcile step of a reload, and the endpoint of a URL in its lists. *)
(***************************************************************************)
ReconcileStep == watcher.pc = "reconcile" /\ watcher'.pc = "wait"

EndpointsOf(eps) == Range(eps.primary) \cup Range(eps.secondary)

TierMatches(tier, eps, h) ==
    /\ Len(tier) = Len(eps)
    /\ \A i \in 1..Len(eps) : h[tier[i]].url = eps[i].url

(***************************************************************************)
(* C9.  A reconcile step with endpoint lists of distinct URLs keeps, for   *)
(* every URL that is in the registry before and in the new lists, the same *)
(* state object with call_count, errors, healthy, latest_block, behind,    *)
(* latency_ms and breaker unchanged, placed in the tier and position the   *)
(* new lists give the URL; gives every other URL of the new lists a newly  *)
(* allocated object with zero counters and a default breaker; and leaves   *)
(* no object in the registry whose URL the new lists do not name.          *)
(***************************************************************************)
C9_ReconcilePreservesState ==
    [][ReconcileStep =>
         LET eps == watcher.new_cfg.rpc_endpoints
             urls == {ep.url : ep \in EndpointsOf(eps)}
             old == Range(all(registry))
             new == Range(all(registry'))
         IN /\ TierMatches(registry'.primaries, eps.primary, prov')
            /\ TierMatches(registry'.secondaries, eps.secondary, prov')
            /\ \A o \in old :
                  IF prov[o].url \in urls
                  THEN /\ o \in new
                       /\ prov'[o].url = prov[o].url
                       /\ prov'[o].call_count = prov[o].call_count
                       /\ prov'[o].errors = prov[o].errors
                       /\ prov'[o].healthy = prov[o].healthy
                       /\ prov'[o].latest_block = prov[o].latest_block
                       /\ prov'[o].behind = prov[o].behind
                       /\ prov'[o].latency_ms = prov[o].latency_ms
                       /\ prov'[o].breaker = prov[o].breaker
                  ELSE o \notin new
            /\ \A o \in new \ old :
                  /\ o \notin DOMAIN prov
                  /\ prov'[o].url \notin {prov[x].url : x \in old}
                  /\ prov'[o].call_count = 0
                  /\ prov'[o].errors = 0
                  /\ prov'[o].breaker = [fail_streak |-> 0, banned_until_epoch |-> 0]
            /\ \A o \in DOMAIN prov \ old : prov'[o] = prov[o]]_vars

\* After a reload that moved a URL from the primary to the secondary tier,
\* dropped another and added a third: the moved provider still carries its
\* failed attempt and its fail streak, beside a fresh object.
C9_Witness ==
    /\ watcher.n = 1 /\ watcher.pc = "wait"
    /\ Len(prov) = 3
    /\ \E o \in Range(registry.secondaries) :
          /\ o = 1
          /\ prov[o].call_count = 1
          /\ prov[o].errors = 1
          /\ prov[o].breaker.fail_streak = 1
    /\ \E o \in Range(registry.primaries) : o = 3 /\ prov[o].call_count = 0
    /\ 2 \notin Registered

(***************************************************************************)
(* C10.  A reconcile step whose endpoint lists name, tier by tier and in   *)
(* order, the URLs, weights and max_tps the registry's providers hold      *)
(* changes neither the registry nor any provider state, buckets included.  *)
(* In every reconcile step a retained provider's bucket is replaced, by a  *)
(* full bucket of the new capacity, exactly when the endpoint's max_tps    *)
(* differs from the stored one.                                            *)
(***************************************************************************)
C10_ReconcileSameIsNoOp ==
    [][ReconcileStep =>
         LET eps == watcher.new_cfg.rpc_endpoints
             same(tier, lst) ==
                 /\ TierMatches(tier, lst, prov)
                 /\ \A i \in 1..Len(lst) :
                       /\ prov[tier[i]].max_tps = (IF lst[i].max_tps = <<>> THEN 0 ELSE lst[i].max_tps[1])
                       /\ prov[tier[i]].weight = (IF lst[i].weight < 1 THEN 1 ELSE lst[i].weight)
         IN /\ (same(registry.primaries, eps.primary) /\ same(registry.secondaries, eps.secondary)) =>
                  (registry' = registry /\ prov' = prov)
            /\ \A o \in Range(all(registry)) : \A ep \in EndpointsOf(eps) :
                  ep.url = prov[o].url =>
                     LET m == IF ep.max_tps = <<>> THEN 0 ELSE ep.max_tps[1]
                     IN IF m /= prov[o].max_tps
                        THEN /\ prov'[o].max_tps = m
                             /\ prov'[o].bucket.last = now
                             /\ IF m = 0
                                THEN prov'[o].bucket.capacity = INFINITY
                                ELSE /\ prov'[o].bucket.capacity = m * TicksPerSec
                                     /\ prov'[o].bucket.tokens = m * TicksPerSec
                                     /\ prov'[o].bucket.refill_per_sec = m
                        ELSE prov'[o].bucket = prov[o].bucket]_vars

\* After a reload of the configuration the registry was built from: the
\* same two objects, one with its bucket drained by an attempt that failed.
C10_Witness ==
    /\ watcher.n = 1 /\ watcher.pc = "wait"
    /\ cfg = ConfigOne
    /\ Len(prov) = 2
    /\ registry = build_registry(ConfigOne.rpc_endpoints)
    /\ \E o \in Registered :
          /\ prov[o].bucket.capacity /= INFINITY
          /\ prov[o].bucket.tokens < prov[o].bucket.capacity
          /\ prov[o].errors = 1

(***************************************************************************)
(* What a step did to the cache.                                           *)
(***************************************************************************)
\* The cache key of the request a handler answered in this step.
ReplyKey ==
    LET b == reply'[1].request
    IN <<b.method, to_string(normalize(b.method, unwrap_or(b.params, JNull)))>>

\* A handler is served from the cache in this step.
CacheHit == cache_hits' = cache_hits + 1

\* The keys whose entry this step wrote.
Inserted == {k \in DOMAIN cache' : k \notin DOMAIN cache \/ cache'[k] /= cache[k]}

(***************************************************************************)
(* C11 as claimed.  On every cache hit, the value returned was inserted no *)
(* longer ago than the TTL the configuration gives the method at the time  *)
(* of the hit.                                                             *)
(***************************************************************************)
C11_HitWithinCurrentTtl ==
    [][CacheHit =>
         instant_ms(now) - cache[ReplyKey].inserted
            <= cfg.cache_ttl[reply'[1].request.method]]_vars

(***************************************************************************)
(* C11 as amended.  An entry is written only by a handler returning an     *)
(* upstream success for a request of that key, with deadline = instant of  *)
(* the insert + the TTL that request read from cache_ttl when it started;  *)
(* every cache hit returns the value of the entry under the request's key, *)
(* with the request's id, and that entry's deadline lies in the future, so *)
(* the value is younger than the TTL it was inserted with; the only other  *)
(* change to the cache is the removal of an entry whose deadline passed.   *)
(***************************************************************************)
C11_HitWithinInsertTtl ==
    [][/\ \A r \in Slots :
             (req[r].pc = "idle" /\ req'[r].pc = "select") =>
                req'[r].ttl_ms = (IF req'[r].method \in DOMAIN cfg.cache_ttl
                                  THEN cfg.cache_ttl[req'[r].method] ELSE 0)
       /\ \A k \in Inserted :
             /\ Replied200 /\ ~CacheHit
             /\ k = ReplyKey
             /\ \E r \in Slots :
                   /\ req[r].pc \in {"await", "bawait"} /\ req'[r].pc = "idle"
                   /\ req[r].ttl_ms > 0
                   /\ cache'[k] = [exp |-> instant_ms(now) + req[r].ttl_ms,
                                   val |-> reply'[1].body,
                                   inserted |-> instant_ms(now)]
       /\ CacheHit =>
             /\ ReplyKey \in DOMAIN cache
             /\ cache[ReplyKey].exp > instant_ms(now)
             /\ cache[ReplyKey].inserted <= instant_ms(now)
             /\ reply'[1].status = 200
             /\ reply'[1].body = [cache[ReplyKey].val EXCEPT !.id = reply'[1].request.id]
             /\ cache' = cache
       /\ \A k \in DOMAIN cache \ DOMAIN cache' : cache[k].exp <= instant_ms(now)]_vars

\* A hit under the 500 ms configuration on an entry inserted with 1500 ms,
\* more than 500 ms and less than 1500 ms ago.
C11_Witness ==
    /\ reply /= None
    /\ cache_hits = 1
    /\ cfg = ConfigCacheShort
    /\ \E k \in DOMAIN cache :
          /\ cache[k].exp - cache[k].inserted = 1500
          /\ instant_ms(now) - cache[k].inserted > 500
          /\ cache[k].exp > instant_ms(now)
          /\ reply[1].body = [cache[k].val EXCEPT !.id = reply[1].request.id]

\* The attempts issued so far, over all provider objects.
RECURSIVE sum_call_count(_)
sum_call_count(h) ==
    IF h = <<>> THEN 0 ELSE Head(h).call_count + sum_call_count(Tail(h))

MessageOfReason(reason) ==
    CASE reason = "timeout"    -> "upstream timeout"
      [] reason = "http_error" -> "upstream error"
      [] reason = "bad_json"   -> "bad json"
      [] reason = "rpc_error"  -> "\"boom\""

(***************************************************************************)
(* C13.  A failover request awaiting an attempt has tries >= 1, equal to   *)
(* max(max_provider_tries, 1), and has issued at most tries attempts.  A   *)
(* step in which its attempt fails returns 502 with code -32603 and the    *)
(* message 'Upstream provider error after failover: ' followed by the      *)
(* message of the failure of that very step, and issues no attempt, when   *)
(* the failed attempt was number tries; otherwise the step does not return *)
(* 502.  So with one try a single failure gives the 502.                   *)
(***************************************************************************)
C13_FailoverTriesBounded ==
    /\ [](\A r \in Slots :
            req[r].pc = "await" =>
               /\ req[r].tries = (IF cfg.relay.max_provider_tries < 1 THEN 1
                                  ELSE cfg.relay.max_provider_tries)
               /\ req[r].attempt + 1 <= req[r].tries)
    /\ [][\A r \in Slots :
            (req[r].pc = "await" /\ FailedOn(r, req[r].prov)) =>
               IF req[r].attempt + 1 = req[r].tries
               THEN /\ reply' /= None
                    /\ reply'[1].status = 502
                    /\ reply'[1].request = req[r].body
                    /\ reply'[1].body.id = <<req[r].id_value>>
                    /\ reply'[1].body.error[1].code = -32603
                    /\ reply'[1].body.error[1].message =
                          <<"Upstream provider error after failover: ",
                            MessageOfReason(last_err_map'[prov[req[r].prov].url])>>
                    /\ \A o \in DOMAIN prov : ~IssuedBy(r, o)
               ELSE reply' = None \/ reply'[1].status = 429]_vars

\* A request with two tries just returned the 502 after a timeout followed
\* by a transport failure: the message is that of the second failure.
C13_Witness ==
    /\ reply /= None
    /\ reply[1].status = 502
    /\ reply[1].request.method = "eth_call"
    /\ reply[1].body.error[1].message[2] = "upstream error"
    /\ cfg.relay.max_provider_tries = 2
    /\ \E u \in DOMAIN last_err_map : last_err_map[u] = "timeout"

(***************************************************************************)
(* The failover retry, read off a step: handler r's attempt fails and the  *)
(* handler issues its next attempt.                                        *)
(***************************************************************************)
Retries(r) == req[r].pc = "await" /\ req'[r].pc = "await" /\ req'[r].attempt = req[r].attempt + 1

\* The bucket of p admits one token at clock t.
Admits(p, t) ==
    \/ p.bucket.capacity = INFINITY
    \/ Min(p.bucket.tokens + (t - p.bucket.last) * p.bucket.refill_per_sec,
           p.bucket.capacity) >= TicksPerSec

(***************************************************************************)
(* C14 as claimed.  When the candidates of a request hold at least two     *)
(* distinct providers whose buckets admit and the request has tries left,  *)
(* the attempt after a failed one goes to a different provider.            *)
(***************************************************************************)
C14_RetryOnOtherProvider ==
    [][\A r \in Slots :
          (/\ Retries(r)
           /\ Cardinality({o \in Range(req[r].cands) : Admits(prov[o], now)}) >= 2) =>
             req'[r].prov /= req[r].prov]_vars

(***************************************************************************)
(* C14 as amended.  A failed attempt moves the start of the rotation one   *)
(* position on in the weighted candidate list, and the next attempt goes   *)
(* to the first candidate from that start whose bucket admits: a different *)
(* provider when the failed one stood at the old start, the entry after it *)
(* is another provider and that bucket admits.  An attempt answered        *)
(* without an error member returns that body with status 200.              *)
(***************************************************************************)
C14_RetryFromNextPosition ==
    [][\A r \in Slots :
          /\ Retries(r) =>
               LET n == Len(req[r].cands)
                   start == (req[r].rr_idx + 1) % n
                   rot == [i \in 1..n |-> req[r].cands[((start + i - 1) % n) + 1]]
                   adm == {i \in 1..n : Admits(prov[rot[i]], now)}
               IN /\ req'[r].rr_idx = start
                  /\ req'[r].cands = req[r].cands
                  /\ adm /= {}
                  /\ \E i \in adm : req'[r].prov = rot[i] /\ \A j \in adm : i <= j
                  /\ (/\ req[r].cands[(req[r].rr_idx % n) + 1] = req[r].prov
                      /\ rot[1] /= req[r].prov
                      /\ 1 \in adm) => req'[r].prov /= req[r].prov
          /\ (req[r].pc = "await" /\ req[r].attempt >= 1 /\ SucceededOn(r, req[r].prov)) =>
               /\ reply'[1].status = 200
               /\ reply'[1].request = req[r].body
               /\ reply'[1].body.error = None
               /\ reply'[1].body.result = <<"0x10">>]_vars

\* The second attempt of a request, issued to another provider than the
\* first, was just answered: the client has the result with status 200, the
\* first provider has its failure and its last error.
C14_Witness ==
    /\ reply /= None
    /\ reply[1].status = 200
    /\ reply[1].body.result = <<"0x10">>
    /\ total_calls = 1
    /\ \E a, b \in DOMAIN prov :
          /\ a /= b
          /\ prov[a].errors = 1 /\ prov[a].call_count = 1
          /\ prov[b].errors = 0 /\ prov[b].call_count = 1
          /\ get_last_error(last_err_map, prov[a].url) = "timeout"

(***************************************************************************)
(* C15 as claimed.  In the broadcast path winning peers do not cancel the  *)
(* attempts still in flight: an admitted attempt leaves the set of pending *)
(* attempts only when its own result is handled, one result per step, and  *)
(* a result that is a failure is counted in errors.                        *)
(***************************************************************************)
C15_BroadcastPeersRunToCompletion ==
    [][\A r \in Slots :
          (req[r].pc = "bawait" /\ req'[r] /= req[r]) =>
             LET gone == req[r].pending \ req'[r].pending
             IN /\ Cardinality(gone) = 1
                /\ ~Replied200 => \A o \in gone : prov'[o].errors = prov[o].errors + 1]_vars

(***************************************************************************)
(* C16.  A step that handles a result of a broadcast request either        *)
(* returns that response, which has no error member, with status 200, or   *)
(* records a failure: first_err keeps the message of the first failure of  *)
(* the request; when the failed attempt was the last one pending the step  *)
(* returns 502 with code -32603 and 'All broadcast attempts failed: ' +     *)
(* first_err, and otherwise the request goes on waiting for the others.    *)
(***************************************************************************)
C16_BroadcastOutcome ==
    [][\A r \in Slots :
          (req[r].pc = "bawait" /\ req'[r] /= req[r]) =>
             IF Replied200
             THEN /\ reply'[1].request = req[r].body
                  /\ reply'[1].body.error = None
                  /\ reply'[1].body.result /= None
             ELSE \E o \in req[r].pending :
                    LET msg == MessageOfReason(last_err_map'[prov[o].url])
                        fe == IF req[r].first_err = None THEN msg ELSE req[r].first_err[1]
                    IN /\ prov'[o].errors = prov[o].errors + 1
                       /\ IF req[r].pending = {o}
                          THEN /\ reply' /= None
                               /\ reply'[1].status = 502
                               /\ reply'[1].request = req[r].body
                               /\ reply'[1].body.id = <<req[r].id_value>>
                               /\ reply'[1].body.error[1].code = -32603
                               /\ reply'[1].body.error[1].message =
                                     <<"All broadcast attempts failed: ", fe>>
                          ELSE /\ reply' = None
                               /\ req'[r].pc = "bawait"
                               /\ req'[r].pending = req[r].pending \ {o}
                               /\ req'[r].first_err = <<fe>>]_vars

\* A broadcast request just returned the 502 after a timeout on one
\* provider followed by a transport failure on the other: the message is
\* that of the first failure.
C16_Witness ==
    /\ reply /= None
    /\ reply[1].status = 502
    /\ reply[1].request.method = "eth_sendRawTransaction"
    /\ reply[1].body.error[1].message = <<"All broadcast attempts failed: ", "upstream timeout">>
    /\ \E u \in DOMAIN last_err_map : last_err_map[u] = "http_error"
    /\ \A o \in DOMAIN prov : prov[o].call_count = 1 /\ prov[o].errors = 1

(***************************************************************************)
(* C17.  The status of every response follows the outcome of its request:  *)
(* 200 exactly on a cache hit or an upstream success; 500 with -32000      *)
(* exactly when the handler selects while no registered provider is        *)
(* healthy and unbanned; 429 with -32005 exactly when the handler has      *)
(* candidates, is about to issue an attempt (the first one, or the next    *)
(* one after a failure with tries left) and no candidate's bucket admits;  *)
(* 502 with -32603 exactly when an attempt fails and it was the last one   *)
(* permitted (failover) or pending (broadcast).                            *)
(***************************************************************************)
NoneUsable == \A o \in Registered : ~(prov[o].healthy /\ Unbanned(prov[o], now))

NoneAdmits(list) == list /= <<>> /\ \A o \in Range(list) : ~Admits(prov[o], now)

LastFailure(r) ==
    \E o \in DOMAIN prov :
       /\ FailedOn(r, o)
       /\ \/ req[r].pc = "await" /\ req[r].attempt + 1 >= req[r].tries
          \/ req[r].pc = "bawait" /\ req[r].pending = {o}

C17_StatusFollowsOutcome ==
    [][reply' /= None =>
         LET st == reply'[1].status
             code == reply'[1].body.error[1].code
         IN /\ st \in {200, 429, 500, 502}
            /\ st = 200 <=>
                  \/ CacheHit
                  \/ \E r \in Slots : req[r].pc \in {"await", "bawait"} /\ req'[r] /= req[r]
                                         /\ reply'[1].body.error = None
            /\ st = 500 <=> \E r \in Slots : req[r].pc = "select" /\ req'[r] /= req[r]
                                               /\ NoneUsable
            /\ st = 429 <=>
                  \E r \in Slots :
                     /\ req'[r] /= req[r]
                     /\ \/ req[r].pc = "select" /\ ~NoneUsable
                              /\ NoneAdmits(select_candidates(cfg, registry, prov, now))
                        \/ req[r].pc = "await" /\ FailedOn(r, req[r].prov)
                              /\ req[r].attempt + 1 < req[r].tries
                              /\ NoneAdmits(req[r].cands)
            /\ st = 502 <=> \E r \in Slots : LastFailure(r)
            /\ st = 500 => code = -32000
            /\ st = 429 => code = -32005
            /\ st = 502 => code = -32603]_vars

\* A request was just answered 429 while a registered provider is healthy
\* and unbanned, and its bucket is empty.
C17_Witness ==
    /\ reply /= None
    /\ reply[1].status = 429
    /\ reply[1].body.error[1].code = -32005
    /\ \E o \in Registered : prov[o].healthy /\ Unbanned(prov[o], now) /\ ~Admits(prov[o], now)

(***************************************************************************)
(* The step that completes a sweep: the join of the probe tasks and the    *)
(* loop over ok_states.                                                    *)
(***************************************************************************)
SweepCompletes == sweep.pc = "probing" /\ sweep'.pc = "sleep"

\* The greatest latest_block among the objects of S after the step, from 0.
MaxLatestBlock(S) ==
    IF S = {} THEN 0
    ELSE CHOOSE m \in {prov'[o].latest_block : o \in S} :
            \A o \in S : prov'[o].latest_block <= m

(***************************************************************************)
(* C18 as claimed.  After each completed sweep every provider of the       *)
(* registry has behind = max(0, M - latest_block), M the greatest          *)
(* latest_block over all providers of the registry.                        *)
(***************************************************************************)
C18_BehindFromGlobalMax ==
    [][SweepCompletes =>
         LET reg == Range(all(registry'))
         IN \A o \in reg :
               prov'[o].behind = Max(0, MaxLatestBlock(reg) - prov'[o].latest_block)]_vars

(***************************************************************************)
(* C18 as the code has it.  behind is never negative, and the step that    *)
(* completes a sweep sets behind = M - latest_block for exactly the        *)
(* providers whose probe succeeded in this sweep, M the greatest block     *)
(* number those probes reported; every other provider keeps its behind.    *)
(***************************************************************************)
C18_BehindFromSweepMax ==
    /\ [](\A o \in DOMAIN prov : prov[o].behind >= 0)
    /\ [][SweepCompletes =>
            LET ok == DOMAIN sweep.ok
            IN \A o \in DOMAIN prov :
                  IF o \in ok
                  THEN /\ prov'[o].latest_block = sweep.ok[o]
                       /\ prov'[o].behind =
                             Max(0, MaxLatestBlock(ok) - prov'[o].latest_block)
                  ELSE /\ prov'[o].behind = prov[o].behind
                       /\ prov'[o].latest_block = prov[o].latest_block]_vars

\* A sweep has completed in which one provider reported block 7 and another
\* block 5.
C18_Witness ==
    /\ sweep.pc = "sleep"
    /\ sweep.n >= 1
    /\ \E o1, o2 \in Registered :
          /\ prov[o1].latest_block = 5 /\ prov[o1].behind = 2
          /\ prov[o2].latest_block = 7 /\ prov[o2].behind = 0

(***************************************************************************)
(* C19.  In the state a sweep ends in, a provider of the sweep's snapshot  *)
(* is healthy exactly when its probe reported a block number and the       *)
(* greatest block number reported in the sweep exceeds its own by at most  *)
(* max_blocks_behind, as the sweep read it when it began; a provider that  *)
(* lags by more is unhealthy and a selection made in that state leaves it  *)
(* out.                                                                    *)
(***************************************************************************)
C19_HealthyIffProbedAndNotLagging ==
    [][SweepCompletes =>
         LET ok == DOMAIN sweep.ok
         IN \A o \in Range(sweep.all) :
               LET lag == MaxLatestBlock(ok) - prov'[o].latest_block
               IN /\ prov'[o].healthy <=> (o \in ok /\ lag <= sweep.max_behind)
                  /\ (o \in ok /\ lag > sweep.max_behind) =>
                        /\ prov'[o].behind = lag
                        /\ ~prov'[o].healthy
                        /\ o \notin Range(select_candidates(cfg', registry', prov', now'))]_vars

\* After a sweep in which one provider reported block 7 and another block 5
\* with one block of lag allowed, a request has selected: its candidates
\* are the provider at block 7 alone.
C19_Witness ==
    /\ sweep.pc = "sleep"
    /\ \E o1, o2 \in Registered :
          /\ prov[o1].latest_block = 5 /\ prov[o1].behind = 2 /\ ~prov[o1].healthy
          /\ prov[o2].latest_block = 7 /\ prov[o2].behind = 0 /\ prov[o2].healthy
          /\ \E r \in Slots : req[r].pc = "await" /\ req[r].cands = <<o2>>

(***************************************************************************)
(* C20.  A healthy provider of the registry was in the probe set of the    *)
(* most recent sweep: a sweep has begun, and while a sweep is probing the  *)
(* provider is in its snapshot.  A provider no sweep has probed, one just  *)
(* created at startup or by a reload, is not healthy.                      *)
(***************************************************************************)
C20_HealthyOnlyIfProbed ==
    \A o \in Registered :
       prov[o].healthy =>
          /\ sweep.n >= 1
          /\ sweep.pc = "probing" => o \in Range(sweep.all)

(***************************************************************************)
(* C21.  A bucket with max_tps = 0 never refuses: no request is answered   *)
(* 429 while a candidate is unlimited.  A bucket with max_tps = k > 0      *)
(* keeps its token count within [0, k] (here in 1/TicksPerSec token), and  *)
(* a refused try_take debits nothing: in a step that answers 429 every     *)
(* candidate's bucket holds its count refilled up to k, and no other       *)
(* bucket changes.                                                         *)
(***************************************************************************)
C21_TokensWithinCapacity ==
    /\ [](\A o \in DOMAIN prov :
             IF prov[o].max_tps = 0
             THEN prov[o].bucket.capacity = INFINITY
             ELSE /\ prov[o].bucket.capacity = prov[o].max_tps * TicksPerSec
                  /\ prov[o].bucket.tokens >= 0
                  /\ prov[o].bucket.tokens <= prov[o].bucket.capacity)
    /\ [][(reply' /= None /\ reply'[1].status = 429) =>
            \A r \in Slots :
               req'[r] /= req[r] =>
                  LET visited == IF req[r].pc = "select"
                                 THEN Range(select_candidates(cfg, registry, prov, now))
                                 ELSE Range(req[r].cands)
                  IN \A o \in DOMAIN prov :
                        IF o \in visited
                        THEN /\ prov[o].max_tps /= 0
                             /\ prov'[o].bucket.tokens >= prov[o].bucket.tokens
                             /\ prov'[o].bucket.tokens =
                                   Min(prov[o].bucket.tokens
                                         + (now - prov[o].bucket.last) * prov[o].max_tps,
                                       prov[o].max_tps * TicksPerSec)
                             /\ prov'[o].call_count = prov[o].call_count
                        ELSE prov'[o].bucket = prov[o].bucket]_vars

\* A bucket of 1 token per second was emptied, refused a request half a
\* second later and holds the half token it has refilled.
C21_Witness ==
    /\ reply /= None
    /\ reply[1].status = 429
    /\ \E o \in Registered :
          /\ prov[o].max_tps = 1
          /\ prov[o].call_count = 1
          /\ prov[o].bucket.tokens = 1
          /\ prov[o].bucket.last = 1

(***************************************************************************)
(* C22.  A bucket with max_tps = k > 0 that is full at clock 0 and is not  *)
(* replaced admits at most k + k*T calls of try_take(1) in the first T     *)
(* seconds: with the clock in ticks, call_count * TicksPerSec is at most   *)
(* k * TicksPerSec + k * now.                                              *)
(***************************************************************************)
C22_AdmittedWithinRate ==
    \A o \in Registered :
       prov[o].max_tps > 0 =>
          prov[o].call_count * TicksPerSec
             <= prov[o].max_tps * TicksPerSec + prov[o].max_tps * now

\* One second after the start a bucket of 1 token per second has admitted
\* the 2 calls the bound allows and has just refused another one.
C22_Witness ==
    /\ now = TicksPerSec
    /\ reply /= None
    /\ reply[1].status = 429
    /\ \E o \in Registered : prov[o].max_tps = 1 /\ prov[o].call_count = 2

(***************************************************************************)
(* C23.  Whatever result an attempt ends with, the step that handles it    *)
(* follows the cause: no response in time is a failure recorded as         *)
(* timeout, a failed send or a response with a non-2xx status a failure    *)
(* recorded as http_error, a body that is no JSON a failure recorded as    *)
(* bad_json, a body with an error member a failure recorded as rpc_error;  *)
(* only a 2xx response with a JSON body without error member is a          *)
(* success, which returns 200.                                             *)
(***************************************************************************)
CauseOf(res) ==
    CASE res.k = "timeout" -> "timeout"
      [] res.k = "transport" -> "http_error"
      [] res.k = "http" /\ res.status \notin 200..299 -> "http_error"
      [] res.k = "http" /\ res.status \in 200..299 /\ res.body = None -> "bad_json"
      [] res.k = "http" /\ res.status \in 200..299 /\ res.body /= None ->
           IF res.body[1].error /= None THEN "rpc_error" ELSE "none"

HandledAs(res, o) ==
    IF CauseOf(res) = "none"
    THEN Replied200 /\ prov'[o].errors = prov[o].errors
    ELSE /\ ~Replied200
         /\ prov'[o].errors = prov[o].errors + 1
         /\ prov[o].url \in DOMAIN last_err_map'
         /\ last_err_map'[prov[o].url] = CauseOf(res)

C23_ClassifiedByCause ==
    [][\A r \in Slots : \A res \in StatusResults(req[r]) :
          /\ (req[r].pc = "await" /\ FailoverReply(r, res)) => HandledAs(res, req[r].prov)
          /\ \A o \in req[r].pending :
                (req[r].pc = "bawait" /\ BroadcastReply(r, o, res)) => HandledAs(res, o)]_vars

(***************************************************************************)
(* C24.  The last error of a URL changes only in a step in which an        *)
(* attempt on a provider of that URL fails; such a step leaves it at one   *)
(* of rpc_error, bad_json, http_error, timeout; a step that returns 200    *)
(* changes no last error; and a last error that is not none never          *)
(* becomes none again.                                                     *)
(***************************************************************************)
C24_LastErrorSticky ==
    [][/\ Replied200 => last_err_map' = last_err_map
       /\ \A o \in DOMAIN prov :
             LET u == prov[o].url
                 before == get_last_error(last_err_map, u)
                 after == get_last_error(last_err_map', u)
                 fails == \E o2 \in DOMAIN prov : \E r \in Slots :
                             prov[o2].url = u /\ FailedOn(r, o2)
             IN /\ before /= "none" => after /= "none"
                /\ after /= before => fails
                /\ fails => after \in ErrorReason \ {"none"}]_vars

\* A provider whose attempt failed has since served a request with
\* success, and its last error is still there.
C24_Witness ==
    /\ reply /= None
    /\ reply[1].status = 200
    /\ \E o \in Registered :
          /\ prov[o].errors = 1
          /\ prov[o].call_count = 2
          /\ prov[o].breaker.fail_streak = 0
          /\ prov[o].breaker.banned_until_epoch = 0
          /\ \A o2 \in Registered \ {o} : prov[o2].call_count = 0
          /\ get_last_error(last_err_map, prov[o].url) /= "none"

(***************************************************************************)
(* C25.  With two selectable unlimited primaries of weights w_1, w_2 and   *)
(* every attempt succeeding, the failover request that draws the value n   *)
(* of rr_main issues its attempt to the provider that owns position        *)
(* n mod (w_1 + w_2) of the tier, where provider i owns w_i adjacent       *)
(* positions in registry order.  So after n requests provider i has        *)
(* received w_i attempts for every complete round of w_1 + w_2 requests    *)
(* plus its positions of the round under way, and any w_1 + w_2            *)
(* consecutive requests issue exactly w_i attempts to provider i.          *)
(***************************************************************************)
RECURSIVE SumWeights(_)
SumWeights(i) ==
    IF i = 0 THEN 0 ELSE SumWeights(i - 1) + prov[registry.primaries[i]].weight

\* The provider that owns position p, counted from 0, of the primary tier.
Owner(p) ==
    LET i == CHOOSE j \in 1..Len(registry.primaries) :
                SumWeights(j - 1) <= p /\ p < SumWeights(j)
    IN registry.primaries[i]

\* The positions of the primary tier: the sum of its weights.
TierPositions == SumWeights(Len(registry.primaries))

C25_WeightedShare ==
    /\ [](\A o \in Registered :
             prov[o].call_count =
                prov[o].weight * (rr_main \div TierPositions)
                + Cardinality({p \in 0..((rr_main % TierPositions) - 1) : Owner(p) = o}))
    /\ [][\A r \in Slots :
             (req[r].pc = "select" /\ req'[r] /= req[r]) =>
                /\ rr_main' = rr_main + 1
                /\ FailoverIssued(r, Owner(rr_main % TierPositions))]_vars

\* With weights 1 and 3, two complete rounds of four requests have been
\* dispatched: 2 attempts to A and 6 to B.
C25_Witness ==
    /\ rr_main = 8
    /\ \E a, b \in Registered :
          /\ prov[a].weight = 1 /\ prov[a].call_count = 2
          /\ prov[b].weight = 3 /\ prov[b].call_count = 6

(***************************************************************************)
(* C26.  The params a handler works with are the request's params          *)
(* normalised once.  For eth_getTransactionCount a non-empty array has     *)
(* become exactly [first element, "pending"], an empty array and a value   *)
(* that is no array are unchanged, and normalising the handler's params    *)
(* again yields the same params.  The params of other methods are          *)
(* unchanged.                                                              *)
(***************************************************************************)
C26_NormalizeIdempotent ==
    \A r \in Slots :
       req[r].pc /= "idle" =>
          LET given == unwrap_or(req[r].body.params, JNull)
              once == req[r].params_value
          IN /\ normalize(req[r].method, once) = once
             /\ IF req[r].method = "eth_getTransactionCount" /\ given.t = "arr"
                   /\ Len(given.a) > 0
                THEN once = JArr(<<given.a[1], JStr("pending")>>)
                ELSE once = given

\* A handler works on an eth_getTransactionCount request whose params had
\* three elements, the second one "latest".
C26_Witness ==
    \E r \in Slots :
       /\ req[r].pc = "await"
       /\ req[r].method = "eth_getTransactionCount"
       /\ req[r].body.params = Some(JArr(<<JStr("0xa"), JStr("latest"), JStr("0x1")>>))
       /\ req[r].params_value = JArr(<<JStr("0xa"), JStr("pending")>>)

(***************************************************************************)
(* C27.  Every entry of the cache holds a response without error member.   *)
(* A step writes an entry only when it handles an upstream response        *)
(* without error member for a request that read a positive TTL for its     *)
(* method: the step returns that response with status 200, writes it       *)
(* under the key (method, canonical params) of the request with the        *)
(* deadline now + that TTL, and writes no other entry.  Steps that end an  *)
(* attempt in failure, return a synthesized error or serve a request       *)
(* whose method had no TTL write nothing.                                  *)
(***************************************************************************)
C27_CacheHoldsOnlySuccesses ==
    /\ [](\A k \in DOMAIN cache : cache[k].val.t = "obj" => cache[k].val.error = None)
    /\ [][/\ Inserted /= {} =>
               \E r \in Slots :
                  /\ req[r].pc \in {"await", "bawait"}
                  /\ req'[r] /= req[r]
                  /\ req[r].ttl_ms > 0
                  /\ Replied200
                  /\ reply'[1].request = req[r].body
                  /\ get_error(reply'[1].body) = None
                  /\ Inserted = {ReplyKey}
                  /\ ReplyKey[1] = req[r].method
                  /\ cache'[ReplyKey].val = reply'[1].body
                  /\ cache'[ReplyKey].exp = instant_ms(now) + req[r].ttl_ms
          /\ (reply' /= None /\ reply'[1].status /= 200) => Inserted = {}
          /\ \A r \in Slots :
                (req'[r] /= req[r] /\ req[r].pc \in {"await", "bawait"} /\ req[r].ttl_ms = 0)
                   => Inserted = {}]_vars

\* The cache holds an entry for eth_call while the provider has a failed
\* attempt behind it and a request has just been answered with an error.
C27_Witness ==
    /\ \E k \in DOMAIN cache : k[1] = "eth_call" /\ cache[k].val.error = None
    /\ \E o \in DOMAIN prov : prov[o].errors >= 1
    /\ reply /= None
    /\ reply[1].status /= 200

(***************************************************************************)
(* C28.  The step in which a broadcast request dispatches sends to a set   *)
(* D of candidates with pairwise distinct URLs, at most                    *)
(* max(broadcast_redundancy, 1) of them.  D holds the first admitting      *)
(* candidates in ascending latency: no candidate outside D whose bucket    *)
(* admits has a lower latency than a member of D, and D is smaller than    *)
(* the redundancy only when no candidate outside D admits.  A member of D  *)
(* with a limited bucket pays one token, and no other bucket loses         *)
(* tokens.  With redundancy 1, D is a single provider, and the failure of  *)
(* its attempt returns the 502 without any further attempt.                *)
(***************************************************************************)
C28_BroadcastDispatch ==
    [][\A r \in Slots :
          /\ (req[r].pc = "select" /\ req'[r] /= req[r]
                /\ req[r].method \in cfg.relay.broadcast_methods /\ ~NoneUsable) =>
                LET C == Range(select_candidates(cfg, registry, prov, now))
                    D == IF req'[r].pc = "bawait" THEN req'[r].pending ELSE {}
                    redundancy == Max(cfg.relay.broadcast_redundancy, 1)
                IN /\ D \subseteq C
                   /\ Cardinality(D) <= redundancy
                   /\ \A a, b \in D : a /= b => prov[a].url /= prov[b].url
                   /\ \A d \in D : \A c \in C \ D :
                         Admits(prov[c], now) => prov[d].latency_ms <= prov[c].latency_ms
                   /\ Cardinality(D) < redundancy =>
                         \A c \in C \ D : ~Admits(prov[c], now)
                   /\ D = {} <=> (reply' /= None /\ reply'[1].status = 429)
                   /\ \A o \in DOMAIN prov :
                         IF o \in D
                         THEN /\ prov'[o].call_count = prov[o].call_count + 1
                              /\ Admits(prov[o], now)
                              /\ prov[o].max_tps > 0 =>
                                    prov'[o].bucket.tokens =
                                       Min(prov[o].bucket.tokens
                                             + (now - prov[o].bucket.last) * prov[o].max_tps,
                                           prov[o].bucket.capacity) - TicksPerSec
                         ELSE /\ prov'[o].call_count = prov[o].call_count
                              /\ prov'[o].bucket.tokens >= prov[o].bucket.tokens
          /\ (req[r].pc = "bawait" /\ req'[r] /= req[r] /\ req[r].redundancy = 1) =>
                /\ Cardinality(req[r].pending) = 1
                /\ ~Replied200 => reply' /= None /\ reply'[1].status = 502
                /\ \A o \in DOMAIN prov : prov'[o].call_count = prov[o].call_count]_vars

\* With redundancy 2, a broadcast request awaits B and C: A, first in the
\* registry, was measured slower than both.
C28_Witness ==
    \E r \in Slots : \E a, b, c \in Registered :
       /\ req[r].pc = "bawait"
       /\ req[r].pending = {b, c}
       /\ req[r].redundancy = 2
       /\ prov[a].url = "A" /\ prov[a].healthy /\ prov[a].latency_ms = 3
       /\ prov[a].bucket.tokens = prov[a].bucket.capacity
       /\ prov[b].url = "B" /\ prov[b].latency_ms = 1
       /\ prov[c].url = "C" /\ prov[c].latency_ms = 1

(***************************************************************************)
(* C29.  The candidates a request works with are what the latency gate     *)
(* makes of the weighted list of healthy, unbanned providers of the        *)
(* preferred tier.  When that list is not empty the candidates are not     *)
(* empty and are the sub-list, in the same order, of: every entry when no  *)
(* threshold is configured; the entries with latency_ms below the          *)
(* threshold when there is one; otherwise the entries whose latency_ms is  *)
(* the minimum of the list.                                                *)
(***************************************************************************)
C29_LatencyGate ==
    [][\A r \in Slots :
          (req[r].pc = "select" /\ req'[r] /= req[r] /\ ~NoneUsable) =>
             LET input == healthy_candidates(registry, prov, now)
                 th == cfg.relay.latency_threshold_ms
                 lat(o) == prov[o].latency_ms
                 under(o) == lat(o) < th[1]
                 least(o) == \A x \in Range(input) : lat(o) <= lat(x)
                 out == IF req'[r].pc \in {"await", "bawait"}
                        THEN req'[r].cands
                        ELSE select_candidates(cfg, registry, prov, now)
             IN /\ input /= <<>>
                /\ out /= <<>>
                /\ out = IF th = None THEN input
                         ELSE IF \E o \in Range(input) : under(o)
                              THEN SelectSeq(input, under)
                              ELSE SelectSeq(input, least)]_vars

\* With the gate at 3 ms a request works with B alone, measured at 1 ms,
\* while A, measured at 3 ms, is healthy and not banned.
C29_Witness ==
    \E r \in Slots : \E a, b \in Registered :
       /\ req[r].pc = "bawait"
       /\ cfg.relay.latency_threshold_ms = Some(3)
       /\ Range(req[r].cands) = {b}
       /\ prov[b].latency_ms = 1
       /\ prov[a].latency_ms = 3 /\ prov[a].healthy /\ Unbanned(prov[a], now)

(***************************************************************************)
(* C30.  A step of the health sweep (its start, a probe, its end) changes  *)
(* nothing but the fields healthy, latest_block, latency_ms and behind of  *)
(* providers: call_count, errors, bucket, breaker, weight and max_tps of   *)
(* every provider, the last errors, the registry and the counters stay as  *)
(* they are.  A probe that fails sets healthy = false on its provider and  *)
(* changes nothing else.                                                   *)
(***************************************************************************)
C30_SweepFrame ==
    [][sweep' /= sweep =>
         /\ UNCHANGED <<cfg, registry, last_err_map, rr_main, total_calls, cache_hits,
                        cache, req>>
         /\ DOMAIN prov' = DOMAIN prov
         /\ \A o \in DOMAIN prov :
               prov'[o] = [prov[o] EXCEPT !.healthy = prov'[o].healthy,
                                          !.latest_block = prov'[o].latest_block,
                                          !.latency_ms = prov'[o].latency_ms,
                                          !.behind = prov'[o].behind]
         /\ \A o \in sweep.pending :
               (sweep.pc = "probing" /\ o \notin sweep'.pending /\ o \notin DOMAIN sweep'.ok)
                  => prov' = [prov EXCEPT ![o].healthy = FALSE]]_vars

\* In a second sweep the probe of a provider has failed: the provider is
\* unhealthy and keeps the block 7 and the latency it had, while it has
\* served a request.
C30_Witness ==
    /\ sweep.n = 2
    /\ sweep.pc = "probing"
    /\ \E o \in Range(sweep.all) \ sweep.pending :
          /\ o \notin DOMAIN sweep.ok
          /\ ~prov[o].healthy
          /\ prov[o].latest_block = 7
          /\ prov[o].latency_ms = 1
          /\ prov[o].call_count = 1

(***************************************************************************)
(* C31 as claimed.  No handler's selection emits a provider whose probe of *)
(* the running sweep reported a latest_block more than max_blocks_behind   *)
(* below the highest latest_block reported so far in that sweep.  (The     *)
(* claim also covers the time between sweeps; this is the part of it about *)
(* the window between a probe returning and the lag check.)                *)
(***************************************************************************)
\* The probe of object o in the running sweep reported a lagging block number.
LaggingInSweep(o) ==
    /\ sweep.pc = "probing"
    /\ o \in DOMAIN sweep.ok
    /\ saturating_sub(max_block_of(sweep.ok), sweep.ok[o]) > sweep.max_behind

C31_NoLaggingSelected ==
    [][\A r \in Slots :
          (req[r].pc = "select" /\ req'[r] /= req[r])
             => \A o \in Range(select_candidates(cfg, registry, prov, now)) :
                   ~LaggingInSweep(o)]_vars

(***************************************************************************)
(* C32 as claimed.  Once a reconciliation has removed a provider from the  *)
(* registry, no attempt is issued to it any more, by any request, and its  *)
(* counters and breaker do not change.                                     *)
(***************************************************************************)
\* Objects of the heap that a reconciliation has dropped from the registry.
Removed == DOMAIN prov \ Registered

CountersOf(p) == <<p.call_count, p.errors, p.breaker>>

C32_RemovedNeverAttempted ==
    [][\A o \in Removed :
          /\ NumIssued(o) = 0
          /\ CountersOf(prov'[o]) = CountersOf(prov[o])]_vars

(***************************************************************************)
(* C32 as amended.  Once a reconciliation has removed a provider from the  *)
(* registry, no request that takes its candidate snapshot from then on is  *)
(* issued an attempt to it: an attempt to a removed provider is a retry of *)
(* a request whose snapshot, taken before, holds it.  The counters and the *)
(* breaker of a removed provider change only in a step of such a request.  *)
(***************************************************************************)
\* Handler r is past its selection and holds object o in its snapshot.
InFlightWith(r, o) ==
    /\ req[r].pc \in {"await", "bawait"}
    /\ o \in Range(req[r].cands)

C32_RemovedOnlyBySnapshot ==
    [][\A o \in Removed :
          /\ \A r \in Slots :
                IssuedBy(r, o) => req[r].pc = "await" /\ InFlightWith(r, o)
          /\ CountersOf(prov'[o]) /= CountersOf(prov[o])
                => \E r \in Slots : InFlightWith(r, o) /\ req'[r] /= req[r]]_vars

\* A removed provider, healthy and not banned, is retried by a request in
\* flight while another request is about to select and finds candidates.
C32_Witness ==
    \E o \in Removed : \E r1, r2 \in Slots :
        /\ prov[o].healthy /\ Unbanned(prov[o], now)
        /\ req[r1].pc = "select"
        /\ select_candidates(cfg, registry, prov, now) /= <<>>
        /\ req[r2].pc = "await" /\ req[r2].prov = o /\ req[r2].attempt = 1

(***************************************************************************)
(* C33.  No interleaving of relay requests, status reads, health sweeps    *)
(* and reloads deadlocks on the config, registry and cache locks and the   *)
(* bucket and breaker mutexes: no set of tasks ever waits only on itself;  *)
(* a handler holds no guard while it calls upstream; and a reload that     *)
(* waits for the config or the registry write guard eventually gets it.    *)
(***************************************************************************)
\* Every task of D waits for a guard, and only tasks of D stand in its way.
Stuck(D) ==
    /\ D /= {}
    /\ \A p \in D : Blockers(p) /= {} /\ Blockers(p) \subseteq D

NoDeadlock == \A D \in SUBSET Tasks : ~Stuck(D)

NoGuardAtSend == \A r \in Slots : lk[Handler(r)].pc = "send" => lk[Handler(r)].held = {}

C33_NoDeadlock ==
    /\ [](NoDeadlock /\ NoGuardAtSend)
    /\ Awaits(WatcherTask, "cfg", "W") ~> Holds(WatcherTask, "cfg")
    /\ Awaits(WatcherTask, "registry", "W") ~> Holds(WatcherTask, "registry")

\* The reload waits for the registry write guard behind a handler that holds
\* the config and registry read guards and itself waits for a breaker mutex
\* another handler holds.
C33_Witness ==
    /\ Awaits(WatcherTask, "registry", "W")
    /\ \E r1, r2 \in Slots :
          /\ Holds(Handler(r1), "cfg") /\ Holds(Handler(r1), "registry")
          /\ Awaits(Handler(r1), "breaker", "M")
          /\ Holds(Handler(r2), "breaker")

====
